---- MODULE Spec2Model ----
(***************************************************************************)
(* A model of the release tooling of longhorn-release:                     *)
(*   - GitCli::previous_tag            (src/src/git.rs)                    *)
(*   - ChangelogArgs::run and generate_repo_report                         *)
(*                                     (src/src/cmds/changelog.rs)         *)
(*   - GitCli::clone_repo              (src/src/git.rs)                    *)
(*   - ReleaseArgs::search_issues, the filter hook of ReleaseArgs::run,    *)
(*     ReleaseArgs::create_release and update_gh_args_from_artifacts       *)
(*                                     (src/src/cmds/release.rs)           *)
(*   - TagArgs::run                    (src/src/cmds/tag.rs) with          *)
(*     GitCli::delete_tag and GitCli::create_tag (src/src/git.rs)          *)
(*   - replace_str_with_version_by_reg (src/src/cmds/pr.rs)                *)
(* Strings the code inspects character by character (tag names, commit     *)
(* hashes) are sequences of one-character strings; text the code only      *)
(* concatenates is a sequence of lines.                                    *)
(***************************************************************************)
EXTENDS Integers, Sequences, FiniteSets, TLC

VARIABLES
    \* ---- one call of GitCli::previous_tag ----
    pt_lines,      \* stdout of `git tag --sort -committerdate`, newest first
    pt_git_ok,     \* whether that git command succeeded
    pt_tag,        \* argument tag ("" = no reference tag)
    pt_public,     \* argument is_public
    pt_res,        \* PtPending, or the outcome of the call
    \* ---- the changelog command: its arguments ----
    repos,                \* ChangelogArgs.repos
    tag,                  \* ChangelogArgs.tag
    prev_tag,             \* ChangelogArgs.prev_tag ("" = None or empty)
    is_find_prev_tag,     \* ChangelogArgs.find_prev_tag
    is_public,            \* ChangelogArgs.public
    is_markdown_folding,  \* ChangelogArgs.markdown_folding
    since_days,           \* ChangelogArgs.since_days
    \* ---- what git and GitHub hold for each repository ----
    repo_env,      \* per repository: tags, tag_hash, prev_tag_hash, history
    repo_dir,      \* per repository: whether its directory under .renote exists
    repo_log,      \* per repository: what `git log -1 --format=%at <prev tag>` gives
    \* ---- ChangelogArgs::run and its tasks ----
    task,          \* per spawned task: the locals of generate_repo_report
    completed,     \* tasks that finished and were not joined yet, oldest first
    finished,      \* every task that finished, in the order of finishing
    joined,        \* tasks join_next has returned, in that order
    changelog,     \* the local `changelog` of run
    run_pc,        \* "idle", "joining", "printed" or "error"
    stdout,        \* the lines written by println!
    \* ---- one call of ReleaseArgs::create_release ----
    cr_issues,               \* argument issues
    cr_issue_ids,            \* argument issue_ids (mutable)
    cr_ids_arg,              \* issue_ids as it was when create_release was called
    cr_note_section_labels,  \* self.note_section_labels
    cr_sections,             \* the local `sections`, in insertion order
    cr_contributors,         \* the local `contributors`, in insertion order
    cr_note_contributors,    \* self.note_contributors, empty when None
    cr_pre_note,             \* argument pre_note
    cr_post_note,            \* argument post_note
    cr_dryrun,               \* self.dryrun
    cr_note,                 \* the local `note`
    cr_first,                \* outcome and text of an earlier call with the same inputs
    cr_pc,                   \* "idle", "called", "returned" (Ok(note)), "failed"
                             \* (Err of gh) or "panicked"
    \* ---- ReleaseArgs::run from search_issues to the filter hook ----
    si_milestones,      \* titles of the milestones the tracker lists
    si_milestone,       \* self.milestone
    si_labels,          \* self.labels, empty when None
    si_exclude_labels,  \* self.exclude_labels, empty when None
    si_since_days,      \* self.since_days
    si_found,           \* per search type: the issues the tracker holds for it
    si_hook,            \* whether self.filter_issue_hook is Some
    si_hook_lines,      \* the lines the hook printed, once it ran
    si_pass,            \* the search type of the running loop
    si_page,            \* the local `page`
    si_issue_ids,       \* the local `issue_ids`
    si_issues,          \* the local `issues`
    si_requests,        \* the pages requested so far: <<search type, page>>
    si_res,             \* what search_issues returned
    si_pc,              \* "idle", "called", "searching", "returned", "failed",
                        \* "filtered" or "hook_failed"
    \* ---- TagArgs::run ----
    tg_repos,      \* TagArgs.repos
    tg_force,      \* TagArgs.force
    tg_exists,     \* per repository: whether refs/tags/<tag> exists
    tg_i,          \* the position of `for repo in &self.repos`
    tg_pc,         \* "idle", "loop", "clone", "delete", "create", "ok" (Ok(()))
                   \* or "failed" (Err)
    tg_log,        \* the calls made on GitCli, in order
    \* ---- one call of replace_str_with_version_by_reg ----
    rx_str,        \* argument str (mutable)
    rx_pats,       \* argument pats
    rx_version,    \* argument version
    rx_orig,       \* str as it was before the first call
    rx_once,       \* str as the first call left it
    rx_pc,         \* "idle", "called", "once" or "twice"
    \* ---- one call of update_gh_args_from_artifacts ----
    ga_args,       \* argument args (mutable)
    ga_artifacts,  \* argument artifacts
    ga_before,     \* args as it was when the function was called
    ga_pc          \* "idle", "called", "returned" or "panicked"

ptVars == <<pt_lines, pt_git_ok, pt_tag, pt_public, pt_res>>

argVars == <<repos, tag, prev_tag, is_find_prev_tag, is_public, is_markdown_folding,
             since_days>>

clVars == <<task, completed, finished, joined, changelog, run_pc, stdout>>

crVars == <<cr_issues, cr_issue_ids, cr_ids_arg, cr_note_section_labels, cr_sections,
            cr_contributors, cr_note_contributors, cr_pre_note, cr_post_note,
            cr_dryrun, cr_note, cr_first, cr_pc>>

siVars == <<si_milestones, si_milestone, si_labels, si_exclude_labels, si_since_days,
            si_found, si_hook, si_hook_lines, si_pass, si_page, si_issue_ids,
            si_issues, si_requests, si_res, si_pc>>

tgVars == <<tg_repos, tg_force, tg_exists, tg_i, tg_pc, tg_log>>
rxVars == <<rx_str, rx_pats, rx_version, rx_orig, rx_once, rx_pc>>
gaVars == <<ga_args, ga_artifacts, ga_before, ga_pc>>
vars == <<ptVars, argVars, repo_env, repo_dir, repo_log, clVars, crVars, siVars,
          tgVars, rxVars, gaVars>>

----------------------------------------------------------------------------
(* Bounds of the model.                                                    *)

MaxTags == 3

\* commits in the history window of one repository
MaxCommits == 3

\* commits per page of the commits API
PageSize == 2

\* repositories on the command line
MaxRepos == 2

\* issues handed to create_release
MaxIssues == 3

\* entries of note_section_labels
MaxSectionLabels == 2

\* issues the tracker holds for one search
MaxFound == 3

\* lines a filter hook prints
MaxHookLines == 2

----------------------------------------------------------------------------
(* Generic helpers on sequences.                                           *)

IsInjective(s) == \A i, j \in 1..Len(s) : s[i] = s[j] => i = j

\* all sequences without repetition over S of length at most n
RECURSIVE InjSeqs(_, _)
InjSeqs(S, n) ==
    IF n = 0 THEN {<<>>}
    ELSE LET shorter == InjSeqs(S, n - 1)
         IN  shorter \cup {Append(s, x) : s \in {t \in shorter : Len(t) = n - 1}, x \in S}

DistinctSeqs(S, n) == {s \in InjSeqs(S, n) : IsInjective(s)}

\* all sequences over S of length at most n
RECURSIVE SeqsUpTo(_, _)
SeqsUpTo(S, n) ==
    IF n = 0 THEN {<<>>}
    ELSE LET shorter == SeqsUpTo(S, n - 1)
         IN  shorter \cup {Append(q, x) : q \in {t \in shorter : Len(t) = n - 1}, x \in S}

\* first index of character c in s, 0 when absent
IndexOf(s, c) ==
    IF \E i \in 1..Len(s) : s[i] = c
    THEN CHOOSE i \in 1..Len(s) : s[i] = c /\ \A j \in 1..(i - 1) : s[j] # c
    ELSE 0

RECURSIVE SplitOn(_, _)
SplitOn(s, c) ==
    LET i == IndexOf(s, c)
    IN  IF i = 0 THEN <<s>>
        ELSE <<SubSeq(s, 1, i - 1)>> \o SplitOn(SubSeq(s, i + 1, Len(s)), c)

Last(s) == s[Len(s)]

Front(s) == SubSeq(s, 1, Len(s) - 1)

\* str::starts_with
StartsWith(s, p) == Len(p) <= Len(s) /\ SubSeq(s, 1, Len(p)) = p

----------------------------------------------------------------------------
(* Tag names and semantic versions.                                        *)

Digits == {"0", "1", "2", "3", "4", "5", "6", "7", "8", "9"}

Letters == {"a", "b", "c", "d", "e", "f", "g", "h", "i", "j", "k", "l", "m",
            "n", "o", "p", "q", "r", "s", "t", "u", "v", "w", "x", "y", "z"}

\* the tag names a repository of the model may carry
TagNames == {"v2.0.0", "v1.9.0", "v1.9.0-rc1", "1.8.0", "vv1.0.0", "latest"}

\* the characters of a tag name
Chars(name) ==
    CASE name = "v2.0.0"     -> <<"v", "2", ".", "0", ".", "0">>
      [] name = "v1.9.0"     -> <<"v", "1", ".", "9", ".", "0">>
      [] name = "v1.9.0-rc1" -> <<"v", "1", ".", "9", ".", "0", "-", "r", "c", "1">>
      [] name = "1.8.0"      -> <<"1", ".", "8", ".", "0">>
      [] name = "vv1.0.0"    -> <<"v", "v", "1", ".", "0", ".", "0">>
      [] name = "latest"     -> <<"l", "a", "t", "e", "s", "t">>
      [] name = ""           -> <<>>

AllDigits(id) == \A i \in 1..Len(id) : id[i] \in Digits

\* a numeric identifier of a semantic version: digits, no leading zero
IsNumericIdent(id) ==
    /\ Len(id) > 0
    /\ AllDigits(id)
    /\ (Len(id) > 1 => id[1] # "0")

\* a pre-release identifier: [0-9A-Za-z-]+, numeric ones without leading zero
IsPreIdent(id) ==
    /\ Len(id) > 0
    /\ \A i \in 1..Len(id) : id[i] \in Digits \cup Letters \cup {"-"}
    /\ (AllDigits(id) /\ Len(id) > 1 => id[1] # "0")

\* a build identifier: [0-9A-Za-z-]+
IsBuildIdent(id) ==
    /\ Len(id) > 0
    /\ \A i \in 1..Len(id) : id[i] \in Digits \cup Letters \cup {"-"}

\* semver::Version::parse: MAJOR.MINOR.PATCH[-PRE][+BUILD].  ok is FALSE when
\* the parse returns Err; pre is the pre-release text ("" when there is none).
SemverParse(s) ==
    LET plus  == IndexOf(s, "+")
        main  == IF plus = 0 THEN s ELSE SubSeq(s, 1, plus - 1)
        build == IF plus = 0 THEN <<>> ELSE SubSeq(s, plus + 1, Len(s))
        dash  == IndexOf(main, "-")
        core  == IF dash = 0 THEN main ELSE SubSeq(main, 1, dash - 1)
        pre   == IF dash = 0 THEN <<>> ELSE SubSeq(main, dash + 1, Len(main))
        nums  == SplitOn(core, ".")
        pres  == SplitOn(pre, ".")
        blds  == SplitOn(build, ".")
        ok    == /\ Len(nums) = 3
                 /\ \A i \in 1..3 : IsNumericIdent(nums[i])
                 /\ (dash # 0 => \A i \in 1..Len(pres) : IsPreIdent(pres[i]))
                 /\ (plus # 0 => \A i \in 1..Len(blds) : IsBuildIdent(blds[i]))
    IN  [ok |-> ok, pre |-> IF ok THEN pre ELSE <<>>]

\* str::trim_start_matches('v'): removes every leading 'v'
RECURSIVE TrimStartMatchesV(_)
TrimStartMatchesV(s) ==
    IF Len(s) > 0 /\ s[1] = "v" THEN TrimStartMatchesV(Tail(s)) ELSE s

----------------------------------------------------------------------------
(* GitCli::previous_tag                                                    *)

PtOk(name)  == [kind |-> "ok", tag |-> name]
PtNotFound  == [kind |-> "not_found", tag |-> ""]
PtPanic     == [kind |-> "panic", tag |-> ""]
PtCmdFailed == [kind |-> "cmd_failed", tag |-> ""]
PtPending   == [kind |-> "pending", tag |-> ""]

\* ScanStarted with a fault: every line is a candidate, the reference included
ScanStarted_Always(reftag, tag_found) == TRUE

\* the condition under which the closure treats a line as a candidate
ScanStarted(reftag, tag_found) == (reftag # "" /\ tag_found) \/ reftag = ""

\* PublicVerdict with a fault: the pre-release component is not looked at
PublicVerdict_IgnorePre(str) ==
    IF ~SemverParse(TrimStartMatchesV(Chars(str))).ok THEN "panic" ELSE "accept"

\* the closure's verdict on a candidate when public is set:
\* "panic" (unwrap of a parse error), "accept" or "reject"
PublicVerdict(str) ==
    LET v == SemverParse(TrimStartMatchesV(Chars(str)))
    IN  IF ~v.ok THEN "panic"
        ELSE IF v.pre = <<>> THEN "accept" ELSE "reject"

\* Iterator::find over the lines with the closure of previous_tag;
\* tag_found is the closure's captured flag
RECURSIVE FindPrevTag(_, _, _, _)
FindPrevTag(lines, reftag, public, tag_found) ==
    IF lines = <<>> THEN PtNotFound
    ELSE LET str == Head(lines)
         IN  IF ScanStarted(reftag, tag_found)
             THEN IF public
                  THEN LET verdict == PublicVerdict(str)
                       IN  CASE verdict = "panic"  -> PtPanic
                             [] verdict = "accept" -> PtOk(str)
                             [] verdict = "reject" ->
                                    FindPrevTag(Tail(lines), reftag, public, tag_found)
                  ELSE PtOk(str)
             ELSE FindPrevTag(Tail(lines), reftag, public, str = reftag)

PreviousTag(git_ok, lines, reftag, public) ==
    IF ~git_ok THEN PtCmdFailed
    ELSE FindPrevTag(lines, reftag, public, FALSE)

----------------------------------------------------------------------------
(* The changelog command: what the repositories hold.                      *)

RepoNames == {"longhorn", "longhorn-manager"}

\* commit hashes, as `git rev-parse` and the commits API give them (full length)
Shas == {<<"a", "1">>, <<"b", "2">>, <<"c", "3">>, <<"d", "4">>}

\* the tag lists a repository of the changelog command may carry: one where
\* the previous tag is found, one without an older tag, one with a tag that
\* is no version
RepoTagLists == {<<"v2.0.0", "v1.9.0">>, <<"v2.0.0">>, <<"v2.0.0", "latest">>}

RepoEnv(tags, tag_hash, prev_tag_hash, history) ==
    [tags |-> tags, tag_hash |-> tag_hash, prev_tag_hash |-> prev_tag_hash,
     history |-> history]

Min(a, b) == IF a <= b THEN a ELSE b

\* GET /repos/{repo}/commits?page=p: the p-th page of the history
CommitsPage(history, p) ==
    SubSeq(history, (p - 1) * PageSize + 1, Min(p * PageSize, Len(history)))

\* the day of Utc::now(); times are counted in days
Now == 20

\* since_days as clap fills it in
DefaultSinceDays == 14

\* the outcomes of `git log -1 --format=%at <prev tag>`: a failure, or its
\* output: a timestamp, a timestamp chrono cannot represent, text that is no
\* integer, bytes that are no UTF-8
GitLogOutputs ==
    {[ok |-> FALSE, stdout |-> ""]}
        \cup {[ok |-> TRUE, stdout |-> text] : text \in {"12", "5000", "", "\\xff"}}

\* the output a repository gives when nothing is wrong with the tag
GitLogTimestamp == [ok |-> TRUE, stdout |-> "12"]

\* String::from_utf8(output.stdout)
FromUtf8(bytes) == [ok |-> bytes # "\\xff", text |-> bytes]

\* str::parse::<i64>() of the trimmed output
ParseI64(text) ==
    CASE text = "12"   -> [ok |-> TRUE, value |-> 12]
      [] text = "5000" -> [ok |-> TRUE, value |-> 5000]
      [] OTHER         -> [ok |-> FALSE, value |-> 0]

\* the timestamps NaiveDateTime::from_timestamp_opt accepts
TimestampRange == -1000..1000

Since(from, at) == [from |-> from, at |-> at]

\* from the git log command to since_date: kind is "failed" for Err,
\* "panicked" for the unwrap of a failed parse, and "ok" with the bound
SinceDate_Changelog(log, days) ==
    IF ~log.ok THEN [kind |-> "failed", since |-> Since("none", 0)]
    ELSE IF ~FromUtf8(log.stdout).ok THEN [kind |-> "failed", since |-> Since("none", 0)]
    ELSE LET parsed == ParseI64(FromUtf8(log.stdout).text)
         IN  IF ~parsed.ok THEN [kind |-> "panicked", since |-> Since("none", 0)]
             ELSE IF parsed.value \in TimestampRange
             THEN [kind |-> "ok", since |-> Since("prev_tag", parsed.value)]
             ELSE [kind |-> "ok", since |-> Since("since_days", Now - days)]

----------------------------------------------------------------------------
(* generate_repo_report                                                    *)

\* lines of text
Line(k, repo, sha) == [k |-> k, repo |-> repo, sha |-> sha]
Bullet(sha)        == Line("bullet", "", sha)
Blank              == Line("blank", "", <<>>)

\* ScanCommit with a fault: with find_prev set, a commit is recorded only
\* when the tag commit was found before it
ScanCommit_FlagSkipsTag(st, sha, tag_hash, prev_tag_hash, find_prev) ==
    IF st.stop THEN st
    ELSE IF ~st.tag_found /\ ~StartsWith(sha, tag_hash) THEN st
    ELSE LET found == [st EXCEPT !.tag_found = TRUE]
         IN  IF ~find_prev \/ st.tag_found
             THEN IF found.tag_found /\ StartsWith(sha, prev_tag_hash)
                  THEN [found EXCEPT !.stop = TRUE]
                  ELSE [found EXCEPT !.changelog = Append(@, Bullet(sha))]
             ELSE found

\* ScanCommit with a fault: the boundary is tested after the commit is recorded
ScanCommit_RecordFirst(st, sha, tag_hash, prev_tag_hash, find_prev) ==
    IF st.stop THEN st
    ELSE IF ~st.tag_found /\ ~StartsWith(sha, tag_hash) THEN st
    ELSE LET rec == [st EXCEPT !.tag_found = TRUE,
                               !.changelog = Append(@, Bullet(sha))]
         IN  IF StartsWith(sha, prev_tag_hash)
             THEN [rec EXCEPT !.stop = TRUE] ELSE rec

\* the body of `for commit in &commits`; st.stop records `break 'outer`
ScanCommit(st, sha, tag_hash, prev_tag_hash, find_prev) ==
    IF st.stop THEN st
    ELSE IF ~st.tag_found /\ ~StartsWith(sha, tag_hash) THEN st
    ELSE LET found == [st EXCEPT !.tag_found = TRUE]
         IN  IF ~find_prev \/ found.tag_found
             THEN IF found.tag_found /\ StartsWith(sha, prev_tag_hash)
                  THEN [found EXCEPT !.stop = TRUE]
                  ELSE [found EXCEPT !.changelog = Append(@, Bullet(sha))]
             ELSE found

\* the for loop over one page
RECURSIVE ScanPage(_, _, _, _, _)
ScanPage(st, commits, tag_hash, prev_tag_hash, find_prev) ==
    IF commits = <<>> THEN st
    ELSE ScanPage(ScanCommit(st, Head(commits), tag_hash, prev_tag_hash, find_prev),
                  Tail(commits), tag_hash, prev_tag_hash, find_prev)

\* the two formatdoc! templates at the end of generate_repo_report
Fragment(repo, body, fold) ==
    IF fold
    THEN <<Line("details", "", <<>>), Line("summary", repo, <<>>), Blank>>
         \o body \o <<Blank, Line("end_details", "", <<>>)>>
    ELSE <<Line("heading", repo, <<>>)>> \o body \o <<Blank>>

\* a task as spawned: nothing of generate_repo_report has run
NewTask(repo) ==
    [repo |-> repo, pc |-> "clone", dir_seen |-> FALSE, prev_tag |-> "", page |-> 1,
     tag_found |-> FALSE, stop |-> FALSE, changelog |-> <<>>,
     seen |-> <<>>, requested |-> <<>>, api_error |-> FALSE, result |-> <<>>,
     log_run |-> FALSE, since |-> Since("none", 0), prev_tag_from |-> "none"]

Tasks == DOMAIN task

Running(i) == run_pc = "joining" /\ i \in Tasks

\* the task ends with outcome pc ("done", "failed" or "panicked")
Finish(i, t, pc) ==
    /\ task' = [task EXCEPT ![i] = [t EXCEPT !.pc = pc]]
    /\ completed' = Append(completed, i)
    /\ finished' = Append(finished, i)

\* TaskReturn with a fault: a scan that did not reach the previous tag is an
\* error
TaskReturn_FailIncomplete(i, t) ==
    IF ~t.stop /\ ~t.api_error
    THEN Finish(i, t, "failed")
    ELSE Finish(i, [t EXCEPT !.result = Fragment(t.repo, t.changelog, is_markdown_folding)],
                "done")

\* the end of generate_repo_report: Ok(changelog)
TaskReturn(i, t) ==
    Finish(i, [t EXCEPT !.result = Fragment(t.repo, t.changelog, is_markdown_folding)],
           "done")

\* clone_repo, its condition: self.repo.repo_dir_path().exists(), the
\* directory being <working dir>/<repo> for every task naming that repository
TaskExists(i) ==
    /\ Running(i) /\ task[i].pc = "clone"
    /\ task' = [task EXCEPT ![i].pc = "cloning",
                            ![i].dir_seen = repo_dir[task[i].repo]]
    /\ UNCHANGED <<ptVars, crVars, argVars, siVars, repo_env, repo_dir, repo_log, tgVars, rxVars, gaVars, completed, finished,
                   joined, changelog, run_pc, stdout>>

\* clone_repo, the branch taken: git fetch, reset --hard and checkout in the
\* directory seen, or `gh repo clone`, which creates the directory and fails
\* when the directory is there by now
TaskClone(i) ==
    /\ Running(i) /\ task[i].pc = "cloning"
    /\ \E ok \in BOOLEAN :
          LET r == task[i].repo
              cmd_ok == ok /\ (task[i].dir_seen \/ ~repo_dir[r])
          IN  /\ IF cmd_ok
                 THEN /\ task' = [task EXCEPT ![i].pc = "resolve"]
                      /\ UNCHANGED <<completed, finished>>
                 ELSE Finish(i, task[i], "failed")
              /\ repo_dir' = IF cmd_ok THEN [repo_dir EXCEPT ![r] = TRUE] ELSE repo_dir
    /\ UNCHANGED <<ptVars, crVars, argVars, siVars, repo_env, repo_log, tgVars, rxVars, gaVars, joined, changelog, run_pc, stdout>>

\* from prev_tag.unwrap_or_default() to the start of the loop: the previous
\* tag, the two hashes and the timestamp of the previous tag
TaskResolve(i) ==
    /\ Running(i) /\ task[i].pc = "resolve"
    /\ \E git_tag_ok, rev_parse_ok \in BOOLEAN :
          LET env == repo_env[task[i].repo]
              pt  == IF prev_tag = ""
                     THEN PreviousTag(git_tag_ok, env.tags, tag, is_public)
                     ELSE PtOk(prev_tag)
              sd  == SinceDate_Changelog(repo_log[task[i].repo], since_days)
              named  == [task[i] EXCEPT !.prev_tag_from =
                            IF prev_tag = "" THEN "previous_tag" ELSE "args"]
              logged == [named EXCEPT !.log_run = TRUE]
          IN  CASE pt.kind = "panic" -> Finish(i, named, "panicked")
                [] pt.kind \in {"not_found", "cmd_failed"} -> Finish(i, named, "failed")
                [] pt.kind = "ok" /\ ~rev_parse_ok -> Finish(i, named, "failed")
                [] pt.kind = "ok" /\ rev_parse_ok /\ sd.kind # "ok" ->
                       Finish(i, logged, sd.kind)
                [] pt.kind = "ok" /\ rev_parse_ok /\ sd.kind = "ok" ->
                       /\ task' = [task EXCEPT ![i] = [logged EXCEPT !.pc = "fetch",
                                                                     !.prev_tag = pt.tag,
                                                                     !.since = sd.since]]
                       /\ UNCHANGED <<completed, finished>>
    /\ UNCHANGED <<ptVars, crVars, argVars, siVars, repo_env, repo_dir, repo_log, tgVars, rxVars, gaVars, joined, changelog, run_pc, stdout>>

\* TaskPage with a fault: the match of the previous tag ends the loop over
\* the page only, and the next page is requested
TaskPage_BreakInner(i, ok) ==
    LET t   == task[i]
        env == repo_env[t.repo]
        commits == CommitsPage(env.history, t.page)
        asked == [t EXCEPT !.page = @ + 1, !.requested = Append(@, t.page)]
        got == [asked EXCEPT !.seen = @ \o commits]
        st  == ScanPage([tag_found |-> t.tag_found, stop |-> FALSE,
                         changelog |-> t.changelog],
                        commits, env.tag_hash, env.prev_tag_hash, is_find_prev_tag)
        scanned == [got EXCEPT !.tag_found = st.tag_found, !.stop = st.stop,
                               !.changelog = st.changelog]
    IN  IF ~ok THEN Finish(i, [asked EXCEPT !.api_error = TRUE, !.result =
                       Fragment(t.repo, t.changelog, is_markdown_folding)], "done")
        ELSE IF commits = <<>>
             THEN Finish(i, [got EXCEPT !.result =
                       Fragment(t.repo, t.changelog, is_markdown_folding)], "done")
        ELSE /\ task' = [task EXCEPT ![i] = scanned]
             /\ UNCHANGED <<completed, finished>>

\* one iteration of 'outer: the request of a page, its answer (ok: a page,
\* possibly empty; otherwise an error) and the scan of the page
TaskPage(i, ok) ==
    LET t   == task[i]
        env == repo_env[t.repo]
        commits == CommitsPage(env.history, t.page)
        asked == [t EXCEPT !.page = @ + 1, !.requested = Append(@, t.page)]
        got == [asked EXCEPT !.seen = @ \o commits]
        st  == ScanPage([tag_found |-> t.tag_found, stop |-> FALSE,
                         changelog |-> t.changelog],
                        commits, env.tag_hash, env.prev_tag_hash, is_find_prev_tag)
        scanned == [got EXCEPT !.tag_found = st.tag_found, !.stop = st.stop,
                               !.changelog = st.changelog]
    IN  IF ~ok THEN TaskReturn(i, [asked EXCEPT !.api_error = TRUE])
        ELSE IF commits = <<>> THEN TaskReturn(i, got)
        ELSE IF st.stop THEN TaskReturn(i, scanned)
        ELSE /\ task' = [task EXCEPT ![i] = scanned]
             /\ UNCHANGED <<completed, finished>>

TaskFetch(i) ==
    /\ Running(i) /\ task[i].pc = "fetch"
    /\ \E ok \in BOOLEAN : TaskPage(i, ok)
    /\ UNCHANGED <<ptVars, crVars, argVars, siVars, repo_env, repo_dir, repo_log, tgVars, rxVars, gaVars, joined, changelog, run_pc, stdout>>

----------------------------------------------------------------------------
(* ChangelogArgs::run                                                      *)

\* JoinOk with a fault: the fragment replaces what was collected
JoinOk_Overwrite(i) ==
    /\ changelog' = task[i].result
    /\ UNCHANGED <<task, run_pc>>

\* `changelog += &str` for a task that returned Ok(str)
JoinOk(i) ==
    /\ changelog' = changelog \o task[i].result
    /\ UNCHANGED <<task, run_pc>>

\* JoinErr with a fault: the error of a task is dropped and the loop goes on
JoinErr_Ignore(i) ==
    UNCHANGED <<task, changelog, run_pc>>

\* `res??` on a task that returned Err or panicked: run returns the error and
\* the JoinSet is dropped, which aborts the tasks still running
JoinErr(i) ==
    /\ run_pc' = "error"
    /\ task' = [j \in Tasks |->
                   IF task[j].pc \in {"clone", "cloning", "resolve", "fetch"}
                   THEN [task[j] EXCEPT !.pc = "aborted"] ELSE task[j]]
    /\ UNCHANGED changelog

\* task_joiner.join_next().await returning Some(res)
JoinNext ==
    /\ run_pc = "joining" /\ completed # <<>>
    /\ LET i == Head(completed)
       IN  /\ completed' = Tail(completed)
           /\ joined' = Append(joined, i)
           /\ IF task[i].pc = "done" THEN JoinOk(i) ELSE JoinErr(i)
    /\ UNCHANGED <<ptVars, crVars, argVars, siVars, repo_env, repo_dir, repo_log, tgVars, rxVars, gaVars, finished, stdout>>

\* join_next returning None (every task was joined), then println!
JoinEnd ==
    /\ run_pc = "joining"
    /\ Len(joined) = Len(repos)
    /\ run_pc' = "printed"
    /\ stdout' = changelog \o <<Blank>>
    /\ UNCHANGED <<ptVars, crVars, argVars, siVars, repo_env, repo_dir, repo_log, tgVars, rxVars, gaVars, task, completed, finished, joined, changelog>>

----------------------------------------------------------------------------
(* ReleaseArgs::create_release.                                            *)

\* the labels of the model, with their characters
Labels == {"area/storage", "kind/storage", "area/network", "misc"}

LabelChars(label) ==
    CASE label = "area/storage" ->
             <<"a", "r", "e", "a", "/", "s", "t", "o", "r", "a", "g", "e">>
      [] label = "kind/storage" ->
             <<"k", "i", "n", "d", "/", "s", "t", "o", "r", "a", "g", "e">>
      [] label = "area/network" ->
             <<"a", "r", "e", "a", "/", "n", "e", "t", "w", "o", "r", "k">>
      [] label = "misc" -> <<"m", "i", "s", "c">>

\* the issues the tracker of the model holds
Issue(number, labels, assignees, is_pull) ==
    [number |-> number, labels |-> labels, assignees |-> assignees,
     is_pull |-> is_pull]

IssuePool ==
    {Issue(41, {"area/storage"}, <<"bob">>, FALSE),
     Issue(42, {"area/network", "kind/storage"}, <<"bob", "alice">>, FALSE),
     Issue(43, {}, <<>>, FALSE),
     Issue(44, {"area/network"}, <<"carol">>, TRUE)}

\* str::rfind('/'): index of the last '/', 0 when there is none
LastSlash(chars) ==
    IF \E i \in 1..Len(chars) : chars[i] = "/"
    THEN CHOOSE i \in 1..Len(chars) :
             chars[i] = "/" /\ \A j \in (i + 1)..Len(chars) : chars[j] # "/"
    ELSE 0

\* the closure get_section_key
GetSectionKey(label) ==
    LET chars == LabelChars(label)
    IN  IF LastSlash(chars) # 0
        THEN SubSeq(chars, LastSlash(chars) + 1, Len(chars))
        ELSE chars

MiscKey == <<"m", "i", "s", "c">>

\* SectionsInsert with a fault: a present key is moved to the end
SectionsInsert_MoveLast(sections, key, value) ==
    Append(SelectSeq(sections, LAMBDA section : section.key # key),
           [key |-> key, issues |-> value])

\* IndexMap::insert: a new key goes last, a present key keeps its place and
\* gets the new value
SectionsInsert(sections, key, value) ==
    IF \E i \in 1..Len(sections) : sections[i].key = key
    THEN [i \in 1..Len(sections) |->
             IF sections[i].key = key THEN [key |-> key, issues |-> value]
             ELSE sections[i]]
    ELSE Append(sections, [key |-> key, issues |-> value])

\* the loop `for label in &note_section_labels { sections.insert(..) }`
RECURSIVE InsertSections(_, _)
InsertSections(sections, labels) ==
    IF labels = <<>> THEN sections
    ELSE InsertSections(SectionsInsert(sections, GetSectionKey(Head(labels)), <<>>),
                        Tail(labels))

\* EmptySections with a fault: "misc" is not inserted
EmptySections_NoMisc(labels) == InsertSections(<<>>, labels)

\* sections as create_release sets them up before it files issues
EmptySections(labels) ==
    SectionsInsert(InsertSections(<<>>, labels), MiscKey, <<>>)

\* IndexSet::insert for each element of a list
RECURSIVE InsertAll(_, _)
InsertAll(set, elems) ==
    IF elems = <<>> THEN set
    ELSE InsertAll(IF \E i \in 1..Len(set) : set[i] = Head(elems)
                   THEN set ELSE Append(set, Head(elems)),
                   Tail(elems))

\* SectionKeyOf with a fault: the loop over the labels has no break, and the
\* last entry the issue carries gives the key
RECURSIVE SectionKeyOf_LastMatch(_, _)
SectionKeyOf_LastMatch(issue, labels) ==
    IF labels = <<>> THEN MiscKey
    ELSE IF Last(labels) \in issue.labels THEN GetSectionKey(Last(labels))
    ELSE SectionKeyOf_LastMatch(issue, Front(labels))

\* the section key of an issue: the key of the first entry of
\* note_section_labels the issue carries, "misc" when it carries none
RECURSIVE SectionKeyOf(_, _)
SectionKeyOf(issue, labels) ==
    IF labels = <<>> THEN MiscKey
    ELSE IF Head(labels) \in issue.labels THEN GetSectionKey(Head(labels))
    ELSE SectionKeyOf(issue, Tail(labels))

HasSection(sections, key) == \E i \in 1..Len(sections) : sections[i].key = key

\* sections.get_mut(&section_key).unwrap().push(issue), the key being present
SectionsPush(sections, key, issue) ==
    [i \in 1..Len(sections) |->
        IF sections[i].key = key
        THEN [sections[i] EXCEPT !.issues = Append(@, issue)]
        ELSE sections[i]]

\* an issue whose id was in the set: id removed, assignees added, issue pushed
\* to its section; the unwrap panics when the section is missing
Consume(st, issue, labels) ==
    LET key  == SectionKeyOf(issue, labels)
        used == [st EXCEPT !.issue_ids = @ \ {issue.number},
                           !.contributors = InsertAll(@, issue.assignees)]
    IN  IF HasSection(st.sections, key)
        THEN [used EXCEPT !.sections = SectionsPush(@, key, issue)]
        ELSE [used EXCEPT !.panicked = TRUE]

\* FileIssue with a fault: the id set is not consulted
FileIssue_NoClaim(st, issue, labels) ==
    IF st.panicked THEN st ELSE Consume(st, issue, labels)

\* the body of `for issue in issues`
FileIssue(st, issue, labels) ==
    IF st.panicked THEN st
    ELSE IF issue.number \notin st.issue_ids THEN st
    ELSE Consume(st, issue, labels)

RECURSIVE FileIssues(_, _, _)
FileIssues(st, issues, labels) ==
    IF issues = <<>> THEN st
    ELSE FileIssues(FileIssue(st, Head(issues), labels), Tail(issues), labels)

\* the logins of the model, with their characters
Logins == {"alice", "bob", "carol", "dave"}

LoginChars(login) ==
    CASE login = "alice" -> <<"a", "l", "i", "c", "e">>
      [] login = "bob"   -> <<"b", "o", "b">>
      [] login = "carol" -> <<"c", "a", "r", "o", "l">>
      [] login = "dave"  -> <<"d", "a", "v", "e">>

Lower == <<"a", "b", "c", "d", "e", "f", "g", "h", "i", "j", "k", "l", "m",
           "n", "o", "p", "q", "r", "s", "t", "u", "v", "w", "x", "y", "z">>

Upper == <<"A", "B", "C", "D", "E", "F", "G", "H", "I", "J", "K", "L", "M",
           "N", "O", "P", "Q", "R", "S", "T", "U", "V", "W", "X", "Y", "Z">>

\* Ord for str: the order of the first character that differs, a proper
\* prefix first
RECURSIVE CharsLess(_, _)
CharsLess(a, b) ==
    IF b = <<>> THEN FALSE
    ELSE IF a = <<>> THEN TRUE
    ELSE IF Head(a) # Head(b) THEN IndexOf(Lower, Head(a)) < IndexOf(Lower, Head(b))
    ELSE CharsLess(Tail(a), Tail(b))

LoginLess(a, b) == CharsLess(LoginChars(a), LoginChars(b))

\* SortLogins with a fault: the order of insertion is kept
SortLogins_Keep(logins) == logins

\* contributors.sort()
RECURSIVE SortLogins(_)
SortLogins(logins) ==
    IF logins = <<>> THEN <<>>
    ELSE LET least == CHOOSE k \in 1..Len(logins) :
                          \A m \in 1..Len(logins) : ~LoginLess(logins[m], logins[k])
         IN  <<logins[least]>>
             \o SortLogins([m \in 1..(Len(logins) - 1) |->
                               IF m < least THEN logins[m] ELSE logins[m + 1]])

\* the characters convert_case takes for word boundaries in a section key
WordBreaks == {"-", "_", " "}

\* title.to_case(Case::Title): the words capitalized and joined by spaces
TitleCase(chars) ==
    [k \in 1..Len(chars) |->
        IF chars[k] \in WordBreaks THEN " "
        ELSE IF (k = 1 \/ chars[k - 1] \in WordBreaks) /\ IndexOf(Lower, chars[k]) # 0
        THEN Upper[IndexOf(Lower, chars[k])]
        ELSE chars[k]]

\* pieces of the note
NotePiece(k, title, number, logins) ==
    [k |-> k, title |-> title, number |-> number, logins |-> logins]

\* pre_note and post_note: nothing when the string is empty
NoteText(text) == IF text = "" THEN <<>> ELSE <<NotePiece("text", text, 0, <<>>)>>

\* "\n### {title}\n"
HeadingPiece(key) == NotePiece("heading", TitleCase(key), 0, <<>>)

\* "- {title} [{number}]({url}) - {@assignee ...}\n"
BulletPiece(issue) == NotePiece("bullet", <<>>, issue.number, issue.assignees)

\* RenderIssue with a fault: a pull request gets its bullet too
RenderIssue_WithPulls(issue) == <<BulletPiece(issue)>>

\* the body of `for issue in issues` of the rendering
RenderIssue(issue) == IF issue.is_pull THEN <<>> ELSE <<BulletPiece(issue)>>

RECURSIVE RenderIssues(_)
RenderIssues(issues) ==
    IF issues = <<>> THEN <<>>
    ELSE RenderIssue(Head(issues)) \o RenderIssues(Tail(issues))

\* the body of `for (title, issues) in &sections`
RenderSection(section) ==
    IF section.issues = <<>> THEN <<>>
    ELSE <<HeadingPiece(section.key)>> \o RenderIssues(section.issues)

RECURSIVE RenderSections(_)
RenderSections(sections) ==
    IF sections = <<>> THEN <<>>
    ELSE RenderSection(Head(sections)) \o RenderSections(Tail(sections))

\* "\n## Contributors\n" and one "- @{} \n" for each contributor, sorted
ContributorsBlock(contributors) ==
    LET sorted == SortLogins(contributors)
    IN  <<NotePiece("contributors", <<>>, 0, <<>>)>>
        \o [k \in 1..Len(sorted) |-> NotePiece("contributor", <<>>, 0, <<sorted[k]>>)]

\* RenderNote with a fault: post_note is appended after the contributors
RenderNote_PostLast(pre_note, sections, post_note, contributors) ==
    NoteText(pre_note) \o RenderSections(sections) \o ContributorsBlock(contributors)
        \o NoteText(post_note)

\* the note as create_release builds it from the sections and contributors
RenderNote(pre_note, sections, post_note, contributors) ==
    NoteText(pre_note) \o RenderSections(sections) \o NoteText(post_note)
        \o ContributorsBlock(contributors)

\* ReleaseLocals with a fault: the sections outlive the call
ReleaseLocals_Static(ids) ==
    [issue_ids |-> ids,
     contributors |-> InsertAll(<<>>, cr_note_contributors),
     sections |-> IF cr_sections = <<>> THEN EmptySections(cr_note_section_labels)
                  ELSE cr_sections,
     panicked |-> FALSE]

\* the locals of create_release before the filing loop: the id set passed,
\* the contributors given, the sections empty
ReleaseLocals(ids) ==
    [issue_ids |-> ids,
     contributors |-> InsertAll(<<>>, cr_note_contributors),
     sections |-> EmptySections(cr_note_section_labels),
     panicked |-> FALSE]

\* no earlier call
NoCall == [pc |-> "none", note |-> <<>>]

\* create_release; gh_ok is the outcome of `gh release create`, which is run
\* unless dryrun
CreateRelease ==
    /\ cr_pc = "called"
    /\ \E gh_ok \in BOOLEAN :
       LET st == FileIssues(ReleaseLocals(cr_issue_ids),
                            cr_issues, cr_note_section_labels)
       IN  /\ cr_issue_ids' = st.issue_ids
           /\ cr_sections' = st.sections
           /\ cr_contributors' = IF st.panicked THEN st.contributors
                                  ELSE SortLogins(st.contributors)
           /\ cr_note' = IF st.panicked THEN NoteText(cr_pre_note)
                         ELSE RenderNote(cr_pre_note, st.sections, cr_post_note,
                                         st.contributors)
           /\ cr_pc' = IF st.panicked THEN "panicked"
                       ELSE IF cr_dryrun \/ gh_ok THEN "returned" ELSE "failed"
    /\ UNCHANGED <<cr_issues, cr_ids_arg, cr_note_section_labels, cr_note_contributors, cr_pre_note,
                   cr_post_note, cr_dryrun, cr_first>>
    /\ UNCHANGED <<ptVars, argVars, siVars, repo_env, repo_dir, repo_log, tgVars, rxVars, gaVars, clVars>>

\* a second call of create_release with the inputs of the first and a fresh
\* copy of the id set
CallAgain ==
    /\ cr_pc \in {"returned", "failed"} /\ cr_first = NoCall
    /\ cr_first' = [pc |-> cr_pc, note |-> cr_note]
    /\ cr_issue_ids' = cr_ids_arg
    /\ cr_pc' = "called"
    /\ UNCHANGED <<cr_issues, cr_ids_arg, cr_note_section_labels, cr_note_contributors, cr_pre_note,
                   cr_post_note, cr_dryrun, cr_sections, cr_contributors, cr_note>>
    /\ UNCHANGED <<ptVars, argVars, siVars, repo_env, repo_dir, repo_log, tgVars, rxVars, gaVars, clVars>>

----------------------------------------------------------------------------
(* ReleaseArgs::search_issues and the filter hook of ReleaseArgs::run.     *)

SinceDays == {7, 14}

\* issue.closed_at: None, or Some(day)
NotClosed    == [some |-> FALSE, at |-> 0]
ClosedOn(day) == [some |-> TRUE, at |-> day]

\* what search_issues reads of an issue
SearchIssue(number, labels, closed_at) ==
    [number |-> number, labels |-> labels, closed_at |-> closed_at]

\* the issues of the tracker: an open one, one with a label to exclude, one
\* closed long ago, one closed 14 days ago
SearchPool ==
    {SearchIssue(51, {"kind/bug"}, NotClosed),
     SearchIssue(52, {"kind/bug", "wontfix"}, ClosedOn(13)),
     SearchIssue(53, {}, ClosedOn(5)),
     SearchIssue(54, {"kind/bug"}, ClosedOn(6))}

SearchTypes == <<"label", "milestone">>

\* Utc::now() - Duration::days(self.since_days)
SinceDate(days) == Now - days

\* Keep with a fault: an issue that was never closed is dropped
Keep_DropOpen(issue, exclude_labels, since_date) ==
    /\ issue.closed_at.some /\ issue.closed_at.at >= since_date
    /\ ~(\E l \in issue.labels :
            \E k \in 1..Len(exclude_labels) : exclude_labels[k] = l)

\* the closure of results.retain
Keep(issue, exclude_labels, since_date) ==
    /\ ~(issue.closed_at.some /\ issue.closed_at.at < since_date)
    /\ ~(\E l \in issue.labels :
            \E k \in 1..Len(exclude_labels) : exclude_labels[k] = l)

Retain(results, exclude_labels, since_date) ==
    SelectSeq(results, LAMBDA issue : Keep(issue, exclude_labels, since_date))

\* builder.page(page).send(): the page-th page of what the tracker holds
IssuesPage(found, p) ==
    SubSeq(found, (p - 1) * PageSize + 1, Min(p * PageSize, Len(found)))

\* results of search_issues
SiPending  == [kind |-> "pending", issue_ids |-> {}, issues |-> <<>>]
SiNotFound == [kind |-> "milestone_not_found", issue_ids |-> {}, issues |-> <<>>]
SiApiError == [kind |-> "api_error", issue_ids |-> {}, issues |-> <<>>]
SiOk(ids, issues) == [kind |-> "ok", issue_ids |-> ids, issues |-> issues]

\* FindMilestone with a fault: without a milestone of that title the first
\* milestone listed is taken
FindMilestone_FirstListed(milestones, title) ==
    IF \E k \in 1..Len(milestones) : milestones[k] = title
    THEN CHOOSE k \in 1..Len(milestones) :
             /\ milestones[k] = title
             /\ \A m \in 1..(k - 1) : milestones[m] # title
    ELSE IF milestones = <<>> THEN 0 ELSE 1

\* milestones.iter().find(|m| m.title == self.milestone): the position of the
\* first milestone of that title, 0 for None
FindMilestone(milestones, title) ==
    IF \E k \in 1..Len(milestones) : milestones[k] = title
    THEN CHOOSE k \in 1..Len(milestones) :
             /\ milestones[k] = title
             /\ \A m \in 1..(k - 1) : milestones[m] # title
    ELSE 0

\* the call of a failed search returns: the locals are dropped
SiFail(res) ==
    /\ si_res' = res
    /\ si_pc' = "failed"
    /\ UNCHANGED <<si_pass, si_page, si_issue_ids, si_issues>>

\* from the start of search_issues to the first loop: the list of
\* milestones (ok: the tracker answered) and the lookup of self.milestone
SiMilestone ==
    /\ si_pc = "called"
    /\ \E ok \in BOOLEAN :
          IF ~ok THEN SiFail(SiApiError)
          ELSE IF FindMilestone(si_milestones, si_milestone) = 0 THEN SiFail(SiNotFound)
          ELSE /\ si_pc' = "searching"
               /\ si_pass' = 1 /\ si_page' = 1
               /\ si_issue_ids' = {} /\ si_issues' = <<>>
               /\ UNCHANGED si_res
    /\ UNCHANGED <<si_milestones, si_milestone, si_labels, si_exclude_labels,
                   si_since_days, si_found, si_hook, si_hook_lines, si_requests>>
    /\ UNCHANGED <<ptVars, argVars, repo_env, repo_dir, repo_log, tgVars, rxVars, gaVars, clVars, crVars>>

\* `break`: the next search type, or Ok((issue_ids, issues)) after the last
SiBreak ==
    IF si_pass < Len(SearchTypes)
    THEN /\ si_pass' = si_pass + 1 /\ si_page' = 1
         /\ UNCHANGED <<si_issue_ids, si_issues, si_res, si_pc>>
    ELSE /\ si_res' = SiOk(si_issue_ids, si_issues)
         /\ si_pc' = "returned"
         /\ UNCHANGED <<si_pass, si_page, si_issue_ids, si_issues>>

\* one request of a page (ok: the tracker answered), retain, and the rest of
\* the loop body
SiPage(ok) ==
    LET results == IssuesPage(si_found[SearchTypes[si_pass]], si_page)
        kept    == Retain(results, si_exclude_labels, SinceDate(si_since_days))
    IN  /\ si_requests' = Append(si_requests, <<SearchTypes[si_pass], si_page>>)
        /\ IF ~ok THEN SiFail(SiApiError)
           ELSE IF kept = <<>> THEN SiBreak
           ELSE /\ si_issue_ids' = si_issue_ids \cup
                                      {kept[k].number : k \in 1..Len(kept)}
                /\ si_issues' = si_issues \o kept
                /\ si_page' = si_page + 1
                /\ UNCHANGED <<si_pass, si_res, si_pc>>

\* one iteration of `loop` for the current search type
SiLoop ==
    /\ si_pc = "searching"
    /\ IF SearchTypes[si_pass] = "label" /\ si_labels = <<>>
       THEN SiBreak /\ UNCHANGED si_requests
       ELSE \E ok \in BOOLEAN : SiPage(ok)
    /\ UNCHANGED <<si_milestones, si_milestone, si_labels, si_exclude_labels,
                   si_since_days, si_found, si_hook, si_hook_lines>>
    /\ UNCHANGED <<ptVars, argVars, repo_env, repo_dir, repo_log, tgVars, rxVars, gaVars, clVars, crVars>>

\* the lines a hook may print
HookLines == {"51", "54", "99", "x"}

\* issue_id.parse::<u64>(): 0 stands for Err
ParseU64(line) ==
    CASE line = "51" -> 51
      [] line = "54" -> 54
      [] line = "99" -> 99
      [] OTHER -> 0

\* what execute(Some(hook), None) returns: Err, or the output of the hook
HookOutcomes ==
    {[ok |-> FALSE, lines |-> <<>>]}
        \cup {[ok |-> TRUE, lines |-> ls] : ls \in SeqsUpTo(HookLines, MaxHookLines)}

\* FilterLine with a fault: the ids printed are the ones kept
FilterLine_KeepPrinted(st, issue_id) ==
    [st EXCEPT !.issue_ids = st.issue_ids \cap {issue_id},
               !.issues = SelectSeq(st.issues, LAMBDA issue : issue.number = issue_id)]

\* the body of `for issue_id in issue_lines.lines()` after the parse
FilterLine(st, issue_id) ==
    IF issue_id \in st.issue_ids
    THEN [st EXCEPT !.issue_ids = st.issue_ids \ {issue_id},
                    !.issues = SelectSeq(st.issues, LAMBDA issue : issue.number # issue_id)]
    ELSE st

\* the for loop over the lines; st.failed records the `?` of a failed parse
RECURSIVE FilterLines(_, _)
FilterLines(st, lines) ==
    IF lines = <<>> \/ st.failed THEN st
    ELSE IF ParseU64(Head(lines)) = 0 THEN [st EXCEPT !.failed = TRUE]
    ELSE FilterLines(FilterLine(st, ParseU64(Head(lines))), Tail(lines))

\* run, `if let Some(hook) = &self.filter_issue_hook { ... }`
RunFilterHook ==
    /\ si_pc = "returned"
    /\ IF ~si_hook
       THEN /\ si_pc' = "filtered"
            /\ UNCHANGED <<si_issue_ids, si_issues, si_hook_lines>>
       ELSE \E out \in HookOutcomes :
               LET st == FilterLines([issue_ids |-> si_issue_ids, issues |-> si_issues,
                                      failed |-> FALSE], out.lines)
               IN  /\ si_hook_lines' = out.lines
                   /\ IF ~out.ok \/ st.failed
                      THEN /\ si_pc' = "hook_failed"
                           /\ UNCHANGED <<si_issue_ids, si_issues>>
                      ELSE /\ si_pc' = "filtered"
                           /\ si_issue_ids' = st.issue_ids
                           /\ si_issues' = st.issues
    /\ UNCHANGED <<si_milestones, si_milestone, si_labels, si_exclude_labels,
                   si_since_days, si_found, si_hook, si_pass, si_page, si_requests, si_res>>
    /\ UNCHANGED <<ptVars, argVars, repo_env, repo_dir, repo_log, tgVars, rxVars, gaVars, clVars, crVars>>

----------------------------------------------------------------------------
(* TagArgs::run, GitCli::delete_tag and GitCli::create_tag                 *)

\* a call made on GitCli for the repository at position i of the list;
\* existed: what `git rev-parse refs/tags/<tag>` found, for delete_tag
TagCall(op, i, existed) == [op |-> op, i |-> i, existed |-> existed]

\* what the two commands of the deletion may do
DeleteOutcomes == {"deleted", "tag_d_failed", "push_failed"}

\* GitCli::delete_tag: Ok or Err, and whether the local tag is left
DeleteTag(exists, force, outcome) ==
    IF ~exists THEN [ok |-> TRUE, exists |-> FALSE]
    ELSE IF ~force THEN [ok |-> FALSE, exists |-> TRUE]
    ELSE CASE outcome = "deleted"      -> [ok |-> TRUE, exists |-> FALSE]
           [] outcome = "tag_d_failed" -> [ok |-> FALSE, exists |-> TRUE]
           [] outcome = "push_failed"  -> [ok |-> FALSE, exists |-> FALSE]

\* AfterDelete with a fault: the tag is created whatever delete_tag returned
AfterDelete_AlwaysCreate(ok, force) == "create"

\* the match on the result of delete_tag in run
AfterDelete(ok, force) ==
    IF ok THEN "create"
    ELSE IF ~force THEN "ok" ELSE "create"

\* `for repo in &self.repos`, and Ok(()) after the last repository
TagLoop ==
    /\ tg_pc = "loop"
    /\ tg_pc' = IF tg_i <= Len(tg_repos) THEN "clone" ELSE "ok"
    /\ UNCHANGED <<tg_repos, tg_force, tg_exists, tg_i, tg_log>>
    /\ UNCHANGED <<ptVars, argVars, repo_env, repo_dir, repo_log, clVars, crVars, siVars,
                   rxVars, gaVars>>

\* git.clone_repo(&self.branch)?
TagClone ==
    /\ tg_pc = "clone"
    /\ \E ok \in BOOLEAN :
          LET r == tg_repos[tg_i]
          IN  /\ tg_log' = Append(tg_log, TagCall("clone_repo", tg_i, FALSE))
              /\ tg_pc' = IF ok THEN "delete" ELSE "failed"
              /\ repo_dir' = IF ok THEN [repo_dir EXCEPT ![r] = TRUE] ELSE repo_dir
    /\ UNCHANGED <<tg_repos, tg_force, tg_exists, tg_i>>
    /\ UNCHANGED <<ptVars, argVars, repo_env, repo_log, clVars, crVars, siVars,
                   rxVars, gaVars>>

\* git.delete_tag(&self.tag, self.force) and the match on its result
TagDelete ==
    /\ tg_pc = "delete"
    /\ \E outcome \in DeleteOutcomes :
          LET r   == tg_repos[tg_i]
              res == DeleteTag(tg_exists[r], tg_force, outcome)
          IN  /\ tg_log' = Append(tg_log, TagCall("delete_tag", tg_i, tg_exists[r]))
              /\ tg_exists' = [tg_exists EXCEPT ![r] = res.exists]
              /\ tg_pc' = AfterDelete(res.ok, tg_force)
    /\ UNCHANGED <<tg_repos, tg_force, tg_i>>
    /\ UNCHANGED <<ptVars, argVars, repo_env, repo_dir, repo_log, clVars, crVars, siVars,
                   rxVars, gaVars>>

\* git.create_tag(..)?: `git tag` fails on a tag that exists
TagCreate ==
    /\ tg_pc = "create"
    /\ \E ok \in BOOLEAN :
          LET r      == tg_repos[tg_i]
              cmd_ok == ok /\ ~tg_exists[r]
          IN  /\ tg_log' = Append(tg_log, TagCall("create_tag", tg_i, FALSE))
              /\ tg_exists' = IF cmd_ok THEN [tg_exists EXCEPT ![r] = TRUE] ELSE tg_exists
              /\ tg_pc' = IF cmd_ok THEN "loop" ELSE "failed"
              /\ tg_i' = IF cmd_ok THEN tg_i + 1 ELSE tg_i
    /\ UNCHANGED <<tg_repos, tg_force>>
    /\ UNCHANGED <<ptVars, argVars, repo_env, repo_dir, repo_log, clVars, crVars, siVars,
                   rxVars, gaVars>>

----------------------------------------------------------------------------
(* replace_str_with_version_by_reg and the regular expressions it is       *)
(* given. A manifest is a sequence of characters, its lines joined by      *)
(* line feeds; a pattern is written as in the source and compiled into     *)
(* atoms, of which the first g1 make up capture group 1.                   *)

MaxLines == 2

\* the characters of the manifests and versions of the model
RxChars ==
    {"a", "e", "g", "h", "i", "l", "m", "n", "o", "p", "r", "s", "u", "v",
     "A", "V", ":", " ", "/", ".", "-", "0", "1", "4", "5", "c", "\n"}

\* \s and \S
RxSpace    == {" ", "\n"}
RxNonSpace == RxChars \ RxSpace

\* one character class with its repetition: "one", "plus" (+) or "opt" (?)
Atom(set, q) == [set |-> set, q |-> q]

\* the atoms of a literal
Literal(chars) == [k \in 1..Len(chars) |-> Atom({chars[k]}, "one")]

\* Regex::new(pat): Err for the pattern that does not parse
RegexNew(pat) ==
    LET version == Literal(<<"v", "e", "r", "s", "i", "o", "n", ":">>)
        app     == Literal(<<"a", "p", "p", "V", "e", "r", "s", "i", "o", "n", ":", " ">>)
        image   == Literal(<<"i", "m", "a", "g", "e", ":", " ">>)
        org     == Literal(<<"l", "o", "n", "g", "h", "o", "r", "n", "i", "o", "/">>)
        rest    == <<Atom(RxNonSpace, "plus")>>
        re(group1) == [ok |-> TRUE, atoms |-> group1 \o rest, g1 |-> Len(group1)]
    IN  CASE pat = "(version:\\s+)(\\S+)" -> re(version \o <<Atom(RxSpace, "plus")>>)
          [] pat = "(version: )(\\S+)" -> re(version \o Literal(<<" ">>))
          [] pat = "(appVersion: v?)(\\S+)" -> re(app \o <<Atom({"v"}, "opt")>>)
          [] pat = "(image: longhornio/\\S+:)(\\S+)" ->
                 re(image \o org \o <<Atom(RxNonSpace, "plus")>> \o Literal(<<":">>))
          [] pat = "(longhornio/ui:)(\\S+)" -> re(org \o Literal(<<"u", "i", ":">>))
          [] OTHER -> [ok |-> FALSE, atoms |-> <<>>, g1 |-> 0]

\* the number of characters of text from position p on that are in set
RECURSIVE Run(_, _, _)
Run(text, p, set) ==
    IF p > Len(text) \/ text[p] \notin set THEN 0
    ELSE 1 + Run(text, p + 1, set)

NoMatch == [ok |-> FALSE, start |-> 0, g1 |-> 0, end |-> 0]

\* the match of the atoms from the k-th on at position p, as a backtracking
\* matcher finds it: g1 is the position after capture group 1 and end the
\* position after the match
RECURSIVE MatchAtoms(_, _, _, _), TryGreedy(_, _, _, _, _, _)
MatchAtoms(re, text, k, p) ==
    LET r == IF k > Len(re.atoms)
             THEN [ok |-> TRUE, start |-> 0, g1 |-> 0, end |-> p]
             ELSE LET a   == re.atoms[k]
                      run == Run(text, p, a.set)
                  IN  CASE a.q = "one" ->
                               IF run >= 1 THEN MatchAtoms(re, text, k + 1, p + 1)
                               ELSE NoMatch
                        [] a.q = "plus" -> TryGreedy(re, text, k, p, run, 1)
                        [] a.q = "opt"  -> TryGreedy(re, text, k, p, Min(run, 1), 0)
    IN  IF r.ok /\ k = re.g1 + 1 THEN [r EXCEPT !.g1 = p] ELSE r

\* a repetition takes n characters, or fewer when the rest does not match
TryGreedy(re, text, k, p, n, least) ==
    IF n < least THEN NoMatch
    ELSE LET r == MatchAtoms(re, text, k + 1, p + n)
         IN  IF r.ok THEN r ELSE TryGreedy(re, text, k, p, n - 1, least)

\* the leftmost match that starts at position p or later
RECURSIVE FindFrom(_, _, _)
FindFrom(re, text, p) ==
    IF p > Len(text) THEN NoMatch
    ELSE LET r == MatchAtoms(re, text, 1, p)
         IN  IF r.ok THEN [r EXCEPT !.start = p] ELSE FindFrom(re, text, p + 1)

\* Regex::captures(str)
Captures(re, text) == FindFrom(re, text, 1)

\* Expand with a fault: the text of the second group is kept after the version
Expand_KeepOld(text, m, version) ==
    SubSeq(text, m.start, m.g1 - 1) \o version \o SubSeq(text, m.g1, m.end - 1)

\* the replacement "${1}<version>" of a match
Expand(text, m, version) ==
    SubSeq(text, m.start, m.g1 - 1) \o version

\* Regex::replace_all from position p on: the matches do not overlap
RECURSIVE ReplaceAllFrom(_, _, _, _)
ReplaceAllFrom(re, text, p, version) ==
    LET m == FindFrom(re, text, p)
    IN  IF ~m.ok THEN SubSeq(text, p, Len(text))
        ELSE SubSeq(text, p, m.start - 1) \o Expand(text, m, version)
                 \o ReplaceAllFrom(re, text, m.end, version)

ReplaceAll(re, text, version) == ReplaceAllFrom(re, text, 1, version)

\* replace_str_with_version_by_reg: Ok or Err, and str as it is left
RECURSIVE ReplaceStrWithVersionByReg(_, _, _)
ReplaceStrWithVersionByReg(str, pats, version) ==
    IF pats = <<>> THEN [ok |-> TRUE, str |-> str]
    ELSE LET reg == RegexNew(Head(pats))
         IN  IF ~reg.ok THEN [ok |-> FALSE, str |-> str]
             ELSE ReplaceStrWithVersionByReg(
                      IF Captures(reg, str).ok THEN ReplaceAll(reg, str, version) ELSE str,
                      Tail(pats), version)

\* str::trim_matches('v')
RECURSIVE TrimMatchesV(_)
TrimMatchesV(s) ==
    IF s # <<>> /\ Head(s) = "v" THEN TrimMatchesV(Tail(s))
    ELSE IF s # <<>> /\ s[Len(s)] = "v" THEN TrimMatchesV(SubSeq(s, 1, Len(s) - 1))
    ELSE s

\* the pattern lists of the calls: the two of chart/Chart.yaml, which get
\* the version without its v, the one of uninstall/uninstall.yaml, the one
\* of a component, the one of the test, and the one of a component whose
\* name makes no pattern
RxCallsOf(version) ==
    {[pats |-> <<"(version: )(\\S+)", "(appVersion: v?)(\\S+)">>,
      version |-> TrimMatchesV(version)],
     [pats |-> <<"(image: longhornio/\\S+:)(\\S+)">>, version |-> version],
     [pats |-> <<"(longhornio/ui:)(\\S+)">>, version |-> version],
     [pats |-> <<"(version:\\s+)(\\S+)">>, version |-> version],
     [pats |-> <<"(longhornio/ui:)(\\S+)", "(longhornio/(:)(\\S+)">>, version |-> version]}

\* the tags the pr command is given
RxVersions == {<<"v", "1", ".", "5", ".", "1">>,
               <<"v", "1", ".", "5", ".", "1", "-", "r", "c", "1">>}

\* lines of the manifests
ManifestLines ==
    {<<"v", "e", "r", "s", "i", "o", "n", ":", " ", "v", "1", ".", "4",
       ".", "0">>,
     <<"a", "p", "p", "V", "e", "r", "s", "i", "o", "n", ":", " ", "v",
       "1", ".", "4", ".", "0">>,
     <<"a", "p", "p", "V", "e", "r", "s", "i", "o", "n", ":", " ", "1",
       ".", "4", ".", "0">>,
     <<"i", "m", "a", "g", "e", ":", " ", "l", "o", "n", "g", "h", "o",
       "r", "n", "i", "o", "/", "u", "i", ":", "v", "1", ".", "4", ".",
       "0">>,
     <<"l", "o", "n", "g", "h", "o", "r", "n", "i", "o", "/", "u", "i",
       ":", "v", "1", ".", "4", ".", "0">>,
     <<"n", "a", "m", "e", ":", " ", "l", "o", "n", "g", "h", "o", "r",
       "n">>}

\* the lines joined by line feeds
RECURSIVE JoinLines(_)
JoinLines(ls) ==
    IF ls = <<>> THEN <<>>
    ELSE IF Len(ls) = 1 THEN ls[1]
    ELSE ls[1] \o <<"\n">> \o JoinLines(Tail(ls))

\* the first call on a manifest
RxCall ==
    /\ rx_pc = "called"
    /\ LET res == ReplaceStrWithVersionByReg(rx_str, rx_pats, rx_version)
       IN  /\ rx_str' = res.str
           /\ rx_once' = res.str
           /\ rx_pc' = IF res.ok THEN "once" ELSE "failed"
    /\ UNCHANGED <<rx_pats, rx_version, rx_orig>>
    /\ UNCHANGED <<ptVars, argVars, repo_env, repo_dir, repo_log, clVars, crVars, siVars,
                   tgVars, gaVars>>

\* a second call on what the first one left, with the same patterns and
\* version
RxCallAgain ==
    /\ rx_pc = "once"
    /\ LET res == ReplaceStrWithVersionByReg(rx_str, rx_pats, rx_version)
       IN  /\ rx_str' = res.str
           /\ rx_pc' = IF res.ok THEN "twice" ELSE "failed"
    /\ UNCHANGED <<rx_pats, rx_version, rx_orig, rx_once>>
    /\ UNCHANGED <<ptVars, argVars, repo_env, repo_dir, repo_log, clVars, crVars, siVars,
                   tgVars, gaVars>>

----------------------------------------------------------------------------
(* update_gh_args_from_artifacts                                           *)

MaxGlobs == 2

\* the artifact globs of the model; "out/[" is no valid pattern
GlobPatterns == {"out/*.sbom", "out/*", "*/*.sbom", "none/*", "out/["}

\* an item of the iterator of glob_with: a path, or a GlobError
GlobOk(path) == [ok |-> TRUE, path |-> path]
GlobErr      == [ok |-> FALSE, path |-> ""]

\* glob_with(pattern, MatchOptions::new()) in a working directory that holds
\* out/a.sbom, out/b.sbom, out/latest (a link to a.sbom), out/gone (a link
\* to a file that was removed) and a directory that cannot be read
GlobWith(pattern) ==
    CASE pattern = "out/*.sbom" ->
             [ok |-> TRUE, paths |-> <<GlobOk("out/a.sbom"), GlobOk("out/b.sbom")>>]
      [] pattern = "out/*" ->
             [ok |-> TRUE, paths |-> <<GlobOk("out/a.sbom"), GlobOk("out/b.sbom"),
                                       GlobOk("out/gone"), GlobOk("out/latest")>>]
      [] pattern = "*/*.sbom" ->
             [ok |-> TRUE, paths |-> <<GlobErr, GlobOk("out/a.sbom"), GlobOk("out/b.sbom")>>]
      [] pattern = "none/*" -> [ok |-> TRUE, paths |-> <<>>]
      [] OTHER -> [ok |-> FALSE, paths |-> <<>>]

\* Path::canonicalize: the absolute path with links resolved, or an error
Canonicalize(path) ==
    CASE path = "out/a.sbom" -> [ok |-> TRUE, path |-> "/work/out/a.sbom"]
      [] path = "out/b.sbom" -> [ok |-> TRUE, path |-> "/work/out/b.sbom"]
      [] path = "out/latest" -> [ok |-> TRUE, path |-> "/work/out/a.sbom"]
      [] OTHER               -> [ok |-> FALSE, path |-> ""]

\* PushPaths with a fault: the path is pushed as the glob gave it
RECURSIVE PushPaths_Raw(_, _)
PushPaths_Raw(args, paths) ==
    IF paths = <<>> THEN args
    ELSE LET it == Head(paths)
         IN  IF it.ok /\ Canonicalize(it.path).ok
             THEN PushPaths_Raw(Append(args, it.path), Tail(paths))
             ELSE PushPaths_Raw(args, Tail(paths))

\* filter_map(Result::ok), flat_map(canonicalize) and the push of each path
RECURSIVE PushPaths(_, _)
PushPaths(args, paths) ==
    IF paths = <<>> THEN args
    ELSE LET it == Head(paths)
         IN  IF it.ok /\ Canonicalize(it.path).ok
             THEN PushPaths(Append(args, Canonicalize(it.path).path), Tail(paths))
             ELSE PushPaths(args, Tail(paths))

\* `for artifact in artifacts`; the unwrap of an invalid pattern panics
RECURSIVE PushArtifacts(_, _)
PushArtifacts(args, artifacts) ==
    IF artifacts = <<>> THEN [pc |-> "returned", args |-> args]
    ELSE LET globbed == GlobWith(Head(artifacts))
         IN  IF ~globbed.ok THEN [pc |-> "panicked", args |-> args]
             ELSE PushArtifacts(PushPaths(args, globbed.paths), Tail(artifacts))

UpdateGhArgsFromArtifacts ==
    /\ ga_pc = "called"
    /\ LET res == PushArtifacts(ga_args, ga_artifacts)
       IN  /\ ga_args' = res.args
           /\ ga_pc' = res.pc
    /\ UNCHANGED <<ga_artifacts, ga_before>>
    /\ UNCHANGED <<ptVars, argVars, repo_env, repo_dir, repo_log, clVars, crVars, siVars,
                   tgVars, rxVars>>

----------------------------------------------------------------------------
(* Specifications.                                                         *)

\* no call of previous_tag on its own is modelled
IdleTag ==
    /\ pt_lines = <<>> /\ pt_git_ok = TRUE /\ pt_tag = "" /\ pt_public = FALSE
    /\ pt_res = [kind |-> "idle", tag |-> ""]

\* the changelog command is not run
IdleChangelog ==
    /\ repos = <<>> /\ tag = "" /\ prev_tag = ""
    /\ is_find_prev_tag = FALSE /\ is_public = FALSE /\ is_markdown_folding = FALSE
    /\ since_days = DefaultSinceDays
    /\ repo_log = [r \in RepoNames |-> GitLogTimestamp]
    /\ repo_env = [r \in RepoNames |-> RepoEnv(<<>>, <<>>, <<>>, <<>>)]
    /\ repo_dir = [r \in RepoNames |-> FALSE]
    /\ task = <<>> /\ completed = <<>> /\ finished = <<>> /\ joined = <<>>
    /\ changelog = <<>>
    /\ run_pc = "idle" /\ stdout = <<>>

\* create_release is not called
IdleRelease ==
    /\ cr_issues = <<>> /\ cr_issue_ids = {} /\ cr_ids_arg = {}
    /\ cr_note_section_labels = <<>>
    /\ cr_sections = <<>> /\ cr_contributors = <<>>
    /\ cr_note_contributors = <<>> /\ cr_pre_note = "" /\ cr_post_note = ""
    /\ cr_dryrun = FALSE /\ cr_note = <<>> /\ cr_first = NoCall /\ cr_pc = "idle"

\* search_issues is not called
IdleSearch ==
    /\ si_milestones = <<>> /\ si_milestone = "" /\ si_labels = <<>>
    /\ si_exclude_labels = <<>> /\ si_since_days = 14
    /\ si_found = [t \in {"label", "milestone"} |-> <<>>]
    /\ si_hook = FALSE /\ si_hook_lines = <<>>
    /\ si_pass = 1 /\ si_page = 1 /\ si_issue_ids = {} /\ si_issues = <<>>
    /\ si_requests = <<>> /\ si_res = SiPending /\ si_pc = "idle"

\* the tag command is not run
IdleTagCmd ==
    /\ tg_repos = <<>> /\ tg_force = FALSE
    /\ tg_exists = [r \in RepoNames |-> FALSE]
    /\ tg_i = 1 /\ tg_pc = "idle" /\ tg_log = <<>>

\* replace_str_with_version_by_reg is not called
IdleRegex ==
    /\ rx_str = <<>> /\ rx_pats = <<>> /\ rx_version = <<>>
    /\ rx_orig = <<>> /\ rx_once = <<>> /\ rx_pc = "idle"

\* update_gh_args_from_artifacts is not called
IdleArtifacts ==
    /\ ga_args = <<>> /\ ga_artifacts = <<>> /\ ga_before = <<>> /\ ga_pc = "idle"

InitTag ==
    /\ IdleTagCmd /\ IdleRegex /\ IdleArtifacts
    /\ IdleSearch
    /\ pt_lines \in DistinctSeqs(TagNames, MaxTags)
    /\ pt_git_ok \in BOOLEAN
    /\ pt_tag \in TagNames \cup {""}
    /\ pt_public \in BOOLEAN
    /\ pt_res = PtPending
    /\ IdleChangelog
    /\ IdleRelease

CallPreviousTag ==
    /\ pt_res = PtPending
    /\ pt_res' = PreviousTag(pt_git_ok, pt_lines, pt_tag, pt_public)
    /\ UNCHANGED <<pt_lines, pt_git_ok, pt_tag, pt_public, argVars, siVars, repo_env, repo_dir, repo_log, tgVars, rxVars, gaVars, clVars, crVars>>

NextTag == CallPreviousTag

\* calls of previous_tag on every tag list
SpecTag == InitTag /\ [][NextTag]_vars

\* the state of run after the spawn loop
Spawned ==
    /\ task = [i \in 1..Len(repos) |-> NewTask(repos[i])]
    /\ completed = <<>> /\ finished = <<>> /\ joined = <<>> /\ changelog = <<>>
    /\ run_pc = "joining" /\ stdout = <<>>

UnusedEnv == RepoEnv(<<>>, <<>>, <<>>, <<>>)

\* one repository, every history, tag hash and previous-tag hash
InitScan ==
    /\ IdleTagCmd /\ IdleRegex /\ IdleArtifacts
    /\ IdleSearch
    /\ IdleTag
    /\ IdleRelease
    /\ repos = <<"longhorn">>
    /\ tag = "v2.0.0"
    /\ prev_tag \in {"", "v1.9.0"}
    /\ is_find_prev_tag \in BOOLEAN
    /\ is_public \in BOOLEAN
    /\ is_markdown_folding \in BOOLEAN
    /\ \E tags \in RepoTagLists, th, ph \in Shas, h \in DistinctSeqs(Shas, MaxCommits) :
          repo_env = [r \in RepoNames |->
                         IF r = "longhorn" THEN RepoEnv(tags, th, ph, h) ELSE UnusedEnv]
    /\ repo_dir = [r \in RepoNames |-> FALSE]
    /\ repo_log = [r \in RepoNames |-> GitLogTimestamp]
    /\ since_days = DefaultSinceDays
    /\ Spawned

NextChangelog ==
    \/ \E i \in Tasks : TaskExists(i)
    \/ \E i \in Tasks : TaskClone(i)
    \/ \E i \in Tasks : TaskResolve(i)
    \/ \E i \in Tasks : TaskFetch(i)
    \/ JoinNext
    \/ JoinEnd

\* the changelog command on one repository
SpecScan == InitScan /\ [][NextChangelog]_vars

\* the same under the scheduling of the tokio runtime: a task that can take a
\* step takes it, and run polls its JoinSet
SpecScanLive == SpecScan /\ WF_vars(NextChangelog)

\* what a repository of the fan-out holds: a window closed by the previous
\* tag, an empty window, a window of two pages without the previous tag
FanEnvs ==
    {RepoEnv(<<"v2.0.0", "v1.9.0">>, <<"a", "1">>, <<"b", "2">>,
             <<<<"a", "1">>, <<"b", "2">>>>),
     RepoEnv(<<"v2.0.0", "latest">>, <<"a", "1">>, <<"b", "2">>, <<>>),
     RepoEnv(<<"v2.0.0">>, <<"a", "1">>, <<"b", "2">>,
             <<<<"c", "3">>, <<"a", "1">>, <<"d", "4">>>>)}

\* up to MaxRepos repositories, the same one possibly named twice, in a working
\* directory that is fresh or holds the clones of an earlier run
InitFan ==
    /\ IdleTagCmd /\ IdleRegex /\ IdleArtifacts
    /\ IdleSearch
    /\ IdleTag
    /\ IdleRelease
    /\ repos \in SeqsUpTo(RepoNames, MaxRepos)
    /\ tag = "v2.0.0"
    /\ prev_tag \in {"", "v1.9.0"}
    /\ is_find_prev_tag = TRUE
    /\ is_public = TRUE
    /\ is_markdown_folding \in BOOLEAN
    /\ repo_env \in [RepoNames -> FanEnvs]
    /\ \E fresh \in BOOLEAN : repo_dir = [r \in RepoNames |-> ~fresh]
    /\ repo_log = [r \in RepoNames |-> GitLogTimestamp]
    /\ since_days = DefaultSinceDays
    /\ Spawned

\* the changelog command on several repositories
SpecFan == InitFan /\ [][NextChangelog]_vars

\* the other inputs of create_release: extra contributors, the two notes
\* (empty or not) and dryrun
NoteArgs ==
    {[note_contributors |-> <<>>, pre_note |-> "", post_note |-> "", dryrun |-> TRUE],
     [note_contributors |-> <<>>, pre_note |-> "pre", post_note |-> "", dryrun |-> FALSE],
     [note_contributors |-> <<"dave", "bob">>, pre_note |-> "", post_note |-> "post",
      dryrun |-> TRUE],
     [note_contributors |-> <<"dave", "bob">>, pre_note |-> "pre", post_note |-> "post",
      dryrun |-> FALSE]}

\* the issue list as search_issues returns it (the same issue possibly more
\* than once) with the id set built from it, or with that set less one id
InitRelease ==
    /\ IdleTagCmd /\ IdleRegex /\ IdleArtifacts
    /\ IdleSearch
    /\ IdleTag
    /\ IdleChangelog
    /\ cr_issues \in SeqsUpTo(IssuePool, MaxIssues)
    /\ \E hooked \in BOOLEAN :
          cr_issue_ids = {cr_issues[i].number : i \in 1..Len(cr_issues)}
                             \ (IF hooked THEN {41} ELSE {})
    /\ cr_ids_arg = cr_issue_ids
    /\ cr_note_section_labels \in DistinctSeqs(Labels, MaxSectionLabels)
    /\ cr_sections = <<>> /\ cr_contributors = <<>>
    /\ \E a \in NoteArgs :
          /\ cr_note_contributors = a.note_contributors
          /\ cr_pre_note = a.pre_note /\ cr_post_note = a.post_note
          /\ cr_dryrun = a.dryrun
    /\ cr_note = <<>> /\ cr_first = NoCall
    /\ cr_pc = "called"

NextRelease == CreateRelease

\* calls of create_release
SpecRelease == InitRelease /\ [][NextRelease]_vars

\* one repository of the fan-out, with every outcome of the git log command
InitSince ==
    /\ IdleTagCmd /\ IdleRegex /\ IdleArtifacts
    /\ IdleTag
    /\ IdleRelease
    /\ IdleSearch
    /\ repos = <<"longhorn">>
    /\ tag = "v2.0.0"
    /\ prev_tag \in {"", "v1.9.0"}
    /\ is_find_prev_tag \in BOOLEAN
    /\ is_public \in BOOLEAN
    /\ is_markdown_folding \in BOOLEAN
    /\ since_days \in {7, DefaultSinceDays}
    /\ \E e \in FanEnvs :
          repo_env = [r \in RepoNames |-> IF r = "longhorn" THEN e ELSE UnusedEnv]
    /\ repo_dir = [r \in RepoNames |-> FALSE]
    /\ \E log \in GitLogOutputs :
          repo_log = [r \in RepoNames |-> IF r = "longhorn" THEN log ELSE GitLogTimestamp]
    /\ Spawned

\* the changelog command on one repository, whose previous tag has a
\* timestamp or not
SpecSince == InitSince /\ [][NextChangelog]_vars

\* the tag command on up to MaxRepos repositories, each with the tag or not
InitTagCmd ==
    /\ IdleTag /\ IdleRelease /\ IdleSearch /\ IdleRegex /\ IdleArtifacts
    /\ repos = <<>> /\ tag = "" /\ prev_tag = ""
    /\ is_find_prev_tag = FALSE /\ is_public = FALSE /\ is_markdown_folding = FALSE
    /\ since_days = DefaultSinceDays
    /\ repo_log = [r \in RepoNames |-> GitLogTimestamp]
    /\ repo_env = [r \in RepoNames |-> RepoEnv(<<>>, <<>>, <<>>, <<>>)]
    /\ task = <<>> /\ completed = <<>> /\ finished = <<>> /\ joined = <<>>
    /\ changelog = <<>>
    /\ run_pc = "idle" /\ stdout = <<>>
    /\ \E fresh \in BOOLEAN : repo_dir = [r \in RepoNames |-> ~fresh]
    /\ tg_repos \in SeqsUpTo(RepoNames, MaxRepos)
    /\ tg_force \in BOOLEAN
    /\ tg_exists \in [RepoNames -> BOOLEAN]
    /\ tg_i = 1 /\ tg_pc = "loop" /\ tg_log = <<>>

NextTagCmd ==
    \/ TagLoop
    \/ TagClone
    \/ TagDelete
    \/ TagCreate

SpecTagCmd == InitTagCmd /\ [][NextTagCmd]_vars

\* args as create_release has built it before the artifacts, and as the
\* test of the function builds it
ArgsBefore ==
    {<<"release", "create", "v1.5.1", "--notes", "note", "--target", "master",
       "--title", "v1.5.1">>,
     <<"release", "create", "v1.5.1", "--notes", "note", "--target", "master",
       "--title", "v1.5.1", "--draft">>,
     <<"pre-dummy.sbom">>}

InitArtifacts ==
    /\ IdleTag /\ IdleChangelog /\ IdleRelease /\ IdleSearch /\ IdleTagCmd /\ IdleRegex
    /\ ga_artifacts \in SeqsUpTo(GlobPatterns, MaxGlobs)
    /\ ga_args \in ArgsBefore
    /\ ga_before = ga_args
    /\ ga_pc = "called"

NextArtifacts == UpdateGhArgsFromArtifacts

SpecArtifacts == InitArtifacts /\ [][NextArtifacts]_vars

\* a call of replace_str_with_version_by_reg on a manifest of up to
\* MaxLines lines
InitRegex ==
    /\ IdleTag /\ IdleChangelog /\ IdleRelease /\ IdleSearch /\ IdleTagCmd
    /\ IdleArtifacts
    /\ \E ls \in SeqsUpTo(ManifestLines, MaxLines) : rx_str = JoinLines(ls)
    /\ \E v \in RxVersions : \E call \in RxCallsOf(v) :
          /\ rx_pats = call.pats
          /\ rx_version = call.version
    /\ rx_orig = rx_str
    /\ rx_once = <<>>
    /\ rx_pc = "called"

NextRegex ==
    \/ RxCall
    \/ RxCallAgain

SpecRegex == InitRegex /\ [][NextRegex]_vars

\* the lists of section labels of the calls made twice
TwiceLabels == {<<>>, <<"kind/storage", "area/network">>, <<"misc", "area/storage">>}

InitTwice ==
    /\ IdleTagCmd /\ IdleRegex /\ IdleArtifacts
    /\ IdleSearch
    /\ IdleTag
    /\ IdleChangelog
    /\ cr_issues \in SeqsUpTo(IssuePool, MaxIssues)
    /\ \E hooked \in BOOLEAN :
          cr_issue_ids = {cr_issues[i].number : i \in 1..Len(cr_issues)}
                             \ (IF hooked THEN {41} ELSE {})
    /\ cr_ids_arg = cr_issue_ids
    /\ cr_note_section_labels \in TwiceLabels
    /\ cr_sections = <<>> /\ cr_contributors = <<>>
    /\ \E a \in NoteArgs :
          /\ cr_note_contributors = a.note_contributors
          /\ cr_pre_note = a.pre_note /\ cr_post_note = a.post_note
          /\ cr_dryrun = a.dryrun
    /\ cr_note = <<>> /\ cr_first = NoCall
    /\ cr_pc = "called"

NextTwice ==
    \/ CreateRelease
    \/ CallAgain

\* create_release called twice with equal inputs
SpecTwice == InitTwice /\ [][NextTwice]_vars

\* self.milestone, and the lists of milestones a tracker may answer with
MilestoneLists == {<<>>, <<"v1.5.0">>, <<"v1.5.0", "v1.6.0">>}

\* a call of search_issues: one of the two searches with up to MaxFound
\* issues, the other with at most one
InitSearch ==
    /\ IdleTagCmd /\ IdleRegex /\ IdleArtifacts
    /\ IdleTag
    /\ IdleChangelog
    /\ IdleRelease
    /\ si_milestones \in MilestoneLists
    /\ si_milestone = "v1.6.0"
    /\ si_labels \in {<<>>, <<"kind/bug">>}
    /\ si_exclude_labels \in {<<>>, <<"wontfix">>}
    /\ si_since_days \in SinceDays
    /\ \E long \in {"label", "milestone"} :
       \E f \in DistinctSeqs(SearchPool, MaxFound), g \in DistinctSeqs(SearchPool, 1) :
          si_found = [t \in {"label", "milestone"} |-> IF t = long THEN f ELSE g]
    /\ si_hook \in BOOLEAN /\ si_hook_lines = <<>>
    /\ si_pass = 1 /\ si_page = 1 /\ si_issue_ids = {} /\ si_issues = <<>>
    /\ si_requests = <<>> /\ si_res = SiPending /\ si_pc = "called"

NextSearch ==
    \/ SiMilestone
    \/ SiLoop
    \/ RunFilterHook

\* ReleaseArgs::run from search_issues to the end of the filter hook
SpecSearch == InitSearch /\ [][NextSearch]_vars

----------------------------------------------------------------------------
(* Claims about previous_tag, checked under SpecTag.                       *)

\* the tag list was read and the call has returned or panicked
PtCalled == pt_res # PtPending /\ pt_git_ok

\* "stripping a leading 'v'": one 'v', when the name starts with one
StripLeadingV(s) == IF Len(s) > 0 /\ s[1] = "v" THEN Tail(s) ELSE s

\* "stripping every leading 'v'"
StripEveryLeadingV(s) ==
    LET n == CHOOSE k \in 0..Len(s) :
                 /\ \A i \in 1..k : s[i] = "v"
                 /\ (k < Len(s) => s[k + 1] # "v")
    IN  SubSeq(s, n + 1, Len(s))

\* the acceptance rule of the specification for one candidate
Acceptable(str, public) ==
    \/ ~public
    \/ LET v == SemverParse(StripEveryLeadingV(Chars(str)))
       IN  v.ok /\ v.pre = <<>>

\* the part of the list the scan covers: everything for an empty reference,
\* the tags after the reference otherwise (nothing when it is absent)
ScannedPart(lines, reftag) ==
    IF reftag = "" THEN lines
    ELSE LET i == IndexOf(lines, reftag)
         IN  IF i = 0 THEN <<>> ELSE SubSeq(lines, i + 1, Len(lines))

AcceptableIndexes(lines, reftag, public) ==
    {i \in 1..Len(ScannedPart(lines, reftag)) :
        Acceptable(ScannedPart(lines, reftag)[i], public)}

\* C2 (as stated): with is_public = true, previous_tag never returns a tag
\* whose name, after stripping a leading 'v', fails semantic-version parsing
\* or has a non-empty pre-release component.
C2_Original ==
    (pt_public /\ pt_res.kind = "ok") =>
        LET v == SemverParse(StripLeadingV(Chars(pt_res.tag)))
        IN  v.ok /\ v.pre = <<>>

\* C2 (amended): with is_public = true, previous_tag never returns a tag
\* whose name, after stripping every leading 'v', fails semantic-version
\* parsing or has a non-empty pre-release component.
C2_PublicOnlyReleases ==
    (pt_public /\ pt_res.kind = "ok") =>
        LET v == SemverParse(StripEveryLeadingV(Chars(pt_res.tag)))
        IN  v.ok /\ v.pre = <<>>

\* C2 witness: a public call returned a tag after passing over a pre-release.
C2_Witness ==
    /\ pt_public /\ pt_res.kind = "ok"
    /\ pt_tag = ""
    /\ \E i \in 1..Len(pt_lines) :
          /\ pt_lines[i] = "v1.9.0-rc1"
          /\ \E j \in (i + 1)..Len(pt_lines) : pt_lines[j] = pt_res.tag

\* C3: for a non-empty reference tag, previous_tag never returns the
\* reference itself; a returned tag stands strictly after the reference in
\* the newest-first list.
C3_NeverReference ==
    (pt_tag # "" /\ pt_res.kind = "ok") =>
        /\ pt_res.tag # pt_tag
        /\ \E i, j \in 1..Len(pt_lines) :
              i < j /\ pt_lines[i] = pt_tag /\ pt_lines[j] = pt_res.tag

\* C3 witness: a call with a reference tag that is not the newest returned.
C3_Witness ==
    /\ pt_tag # "" /\ pt_res.kind = "ok"
    /\ Len(pt_lines) = 3 /\ pt_lines[2] = pt_tag

\* C4: with is_public = true an unparseable candidate is skipped and the
\* call never panics.
C4_NeverPanics == pt_public => pt_res.kind # "panic"

\* C5: previous_tag returns "previous tag not found" exactly when no tag of
\* the scanned part satisfies the acceptance rule.
C5_NotFoundIff ==
    PtCalled =>
        (pt_res = PtNotFound <=> AcceptableIndexes(pt_lines, pt_tag, pt_public) = {})

\* C6: previous_tag returns the first acceptable tag of the scanned part.
C6_FirstAcceptable ==
    PtCalled =>
        LET part == ScannedPart(pt_lines, pt_tag)
            idx  == AcceptableIndexes(pt_lines, pt_tag, pt_public)
        IN  idx # {} =>
                pt_res = PtOk(part[CHOOSE i \in idx : \A j \in idx : i <= j])

----------------------------------------------------------------------------
(* Claims about the commit scan, checked under SpecScan.                   *)

\* the hashes of the commits a task has recorded
Recorded(t) == {t.changelog[k].sha : k \in 1..Len(t.changelog)}

\* index in the commits received of the first one matching hash, 0 if none
FirstMatch(seen, hash) ==
    IF \E k \in 1..Len(seen) : StartsWith(seen[k], hash)
    THEN CHOOSE k \in 1..Len(seen) :
             /\ StartsWith(seen[k], hash)
             /\ \A m \in 1..(k - 1) : ~StartsWith(seen[m], hash)
    ELSE 0

\* C1 (as stated): the recorded commits never include the commit matching
\* the previous-tag hash nor any commit arriving after it, and always include
\* the commit matching the tag hash once it was received.
C1_Original ==
    \A i \in Tasks :
        LET t    == task[i]
            env  == repo_env[t.repo]
        IN  /\ \A k \in 1..Len(t.seen) :
                  StartsWith(t.seen[k], env.prev_tag_hash) =>
                      \A m \in k..Len(t.seen) : t.seen[m] \notin Recorded(t)
            /\ \A k \in 1..Len(t.seen) :
                  StartsWith(t.seen[k], env.tag_hash) => t.seen[k] \in Recorded(t)

\* C1 (amended): the recorded commits never include a commit that matches the
\* previous-tag hash and arrives at or after the tag commit, nor any commit
\* arriving after such a commit; they include the tag commit once it was
\* received, unless the tag commit itself matches the previous-tag hash.
C1_ScanWindow ==
    \A i \in Tasks :
        LET t   == task[i]
            env == repo_env[t.repo]
            ti  == FirstMatch(t.seen, env.tag_hash)
        IN  ti > 0 =>
              /\ \A k \in ti..Len(t.seen) :
                    StartsWith(t.seen[k], env.prev_tag_hash) =>
                        \A m \in k..Len(t.seen) : t.seen[m] \notin Recorded(t)
              /\ (~StartsWith(t.seen[ti], env.prev_tag_hash) =>
                        t.seen[ti] \in Recorded(t))

\* C1 witness: the scan recorded the tag commit and a second commit on the
\* first page and stopped at the previous tag's commit on the second page.
C1_Witness ==
    \E i \in Tasks :
        /\ task[i].stop /\ task[i].page = 3
        /\ Len(task[i].changelog) = 2
        /\ task[i].changelog[1].sha = repo_env[task[i].repo].tag_hash

----------------------------------------------------------------------------
(* Claims about the fan-out, checked under SpecFan.                        *)

\* C8: when a task returns an error or panics, run returns the error at the
\* join of that task, joins no further task and prints nothing; fragments of
\* tasks joined before are discarded.
C8_ErrorStopsFanOut ==
    /\ run_pc = "printed" => \A i \in Tasks : task[i].pc = "done"
    /\ \A k \in 1..Len(joined) :
          task[joined[k]].pc # "done" =>
              /\ run_pc = "error"
              /\ k = Len(joined)
              /\ stdout = <<>>
    /\ run_pc = "error" =>
          /\ stdout = <<>>
          /\ \A i \in Tasks : task[i].pc \notin {"clone", "resolve", "fetch"}

\* C8 witness: run returned an error at the second join, after it had
\* collected the fragment of the first.
C8_Witness ==
    /\ run_pc = "error" /\ changelog # <<>> /\ stdout = <<>>
    /\ Len(joined) = 2

\* C9: a clone error or an error of the commits API makes the task fail, and
\* no document is printed when a repository's task had such a failure.
C9_FailureAborts ==
    /\ \A i \in Tasks : task[i].api_error => task[i].pc \notin {"done"}
    /\ run_pc = "printed" =>
          \A i \in Tasks : ~task[i].api_error /\ task[i].pc # "failed"

\* the fragment of the k-th joined task, spelled out
C10_Expected(k) ==
    LET t    == task[joined[k]]
        name == [k2 \in {"details", "summary", "blank", "end_details", "heading"} |->
                    [k |-> k2, repo |-> IF k2 \in {"summary", "heading"}
                                        THEN repos[joined[k]] ELSE "",
                     sha |-> <<>>]]
    IN  IF is_markdown_folding
        THEN <<name["details"], name["summary"], name["blank"]>>
             \o t.changelog \o <<name["blank"], name["end_details"]>>
        ELSE <<name["heading"]>> \o t.changelog \o <<name["blank"]>>

RECURSIVE C10_Concat(_)
C10_Concat(n) == IF n = 0 THEN <<>> ELSE C10_Concat(n - 1) \o C10_Expected(n)

\* C10: when every task succeeds, the printed changelog is the concatenation,
\* in completion order, of one fragment per entry of repos; a task that
\* recorded no commit contributes its heading or wrapper with an empty body.
C10_Concatenation ==
    run_pc = "printed" =>
        /\ joined = finished
        /\ Len(joined) = Len(repos)
        /\ \A i \in 1..Len(repos) : \E k \in 1..Len(joined) : joined[k] = i
        /\ stdout = C10_Concat(Len(joined)) \o <<[k |-> "blank", repo |-> "", sha |-> <<>>]>>

\* C10 witness: two repositories, the second finishing first, one of them
\* with no commit recorded, and the document printed.
C10_Witness ==
    /\ run_pc = "printed"
    /\ joined = <<2, 1>>
    /\ task[1].changelog # <<>> /\ task[2].changelog = <<>>

----------------------------------------------------------------------------
(* Claims about create_release, checked under SpecRelease.                 *)

\* the id set create_release was called with
IdsBefore == cr_ids_arg

\* the places (section, position) where an issue number was filed
FiledAt(number) ==
    {<<s, k>> \in (1..Len(cr_sections)) \X (1..Len(cr_issues)) :
        k <= Len(cr_sections[s].issues) /\ cr_sections[s].issues[k].number = number}

RECURSIVE NumFiled(_)
NumFiled(s) == IF s = 0 THEN 0 ELSE NumFiled(s - 1) + Len(cr_sections[s].issues)

\* C7: create_release files each issue number into at most one section and at
\* most once, and the id set shrinks by exactly the number of issues filed.
C7_FiledOnce ==
    cr_pc \in {"returned", "failed"} =>
        /\ \A n \in IdsBefore : Cardinality(FiledAt(n)) <= 1
        /\ Cardinality(cr_issue_ids) =
               Cardinality(IdsBefore) - NumFiled(Len(cr_sections))

\* C7 witness: an issue list naming the same issue twice was filed.
C7_Witness ==
    /\ cr_pc = "returned"
    /\ Len(cr_issues) = 3
    /\ cr_issues[1] = cr_issues[3] /\ cr_issues[1] # cr_issues[2]
    /\ NumFiled(Len(cr_sections)) = 2

----------------------------------------------------------------------------
(* Claims about the state the tasks of the fan-out share, checked under    *)
(* SpecFan.                                                                *)

\* C11: the tasks of the fan-out share no mutable state: for every list of
\* repositories, one naming a repository twice included, what a task has read
\* of its clone directory is what the directory still is when the task acts
\* on it, so that no other task can change what the task does.
C11_NoSharedState ==
    \A i \in Tasks :
        task[i].pc = "cloning" => repo_dir[task[i].repo] = task[i].dir_seen

----------------------------------------------------------------------------
(* Claims about the paging of the scan, checked under SpecScanLive.        *)

\* the position in history h of the commit at which the scan stops: the first
\* commit at or after the tag commit that matches the previous-tag hash; 0
\* when there is none
C12_Boundary(h, th, ph) ==
    LET ti == FirstMatch(h, th)
        at == {k \in 1..Len(h) : ti > 0 /\ k >= ti /\ StartsWith(h[k], ph)}
    IN  IF at = {} THEN 0 ELSE CHOOSE k \in at : \A m \in at : k <= m

\* the first page that ends the scan of history h: the page holding the
\* boundary, or else the first empty page
C12_LastPage(h, th, ph) ==
    LET b == C12_Boundary(h, th, ph)
    IN  IF b > 0 THEN (b - 1) \div PageSize + 1
        ELSE (Len(h) + PageSize - 1) \div PageSize + 1

C12_Scanning(t) == t.pc = "fetch"

C12_Pages ==
    \A i \in Tasks :
        LET t    == task[i]
            env  == repo_env[t.repo]
            n    == Len(t.requested)
            last == C12_LastPage(env.history, env.tag_hash, env.prev_tag_hash)
        IN  /\ t.requested = [k \in 1..n |-> k]
            /\ n <= last
            /\ C12_Scanning(t) => ~t.api_error /\ n < last
            /\ t.pc = "done" => t.api_error \/ n = last
            /\ t.pc \notin {"fetch", "done", "aborted"} => n = 0

----------------------------------------------------------------------------
(* Claims about the result of an incomplete scan, checked under SpecScan.  *)

\* the bullets of the commits of history h from position k on, in order
C13_Bullets(h, k) ==
    [m \in 1..(Len(h) - k + 1) |-> [k |-> "bullet", repo |-> "", sha |-> h[k + m - 1]]]

\* the pages of the task were exhausted: every page up to the first empty one
\* was answered and none matched the boundary
C13_Exhausted(t) ==
    LET env == repo_env[t.repo]
    IN  /\ ~t.api_error
        /\ C12_Boundary(env.history, env.tag_hash, env.prev_tag_hash) = 0
        /\ Len(t.requested) = (Len(env.history) + PageSize - 1) \div PageSize + 1

\* C13: when the pages are exhausted without the previous-tag boundary being
\* matched, generate_repo_report returns Ok, and the fragment holds every
\* commit recorded (the tag commit and all that arrived after it) in the
\* order of arrival.
C13_IncompleteIsOk ==
    \A i \in Tasks :
        LET t    == task[i]
            env  == repo_env[t.repo]
            ti   == FirstMatch(env.history, env.tag_hash)
            body == IF ti = 0 THEN <<>> ELSE C13_Bullets(env.history, ti)
            off  == IF is_markdown_folding THEN 3 ELSE 1
        IN  C13_Exhausted(t) =>
              /\ t.pc = "done"
              /\ Len(t.result) = Len(body) + (IF is_markdown_folding THEN 5 ELSE 2)
              /\ SubSeq(t.result, off + 1, off + Len(body)) = body

\* C13 witness: a history of three commits on two pages, the tag commit
\* second, no commit of the previous tag; the task returned a fragment with
\* two commits.
C13_Witness ==
    \E i \in Tasks :
        LET t == task[i]
        IN  /\ C13_Exhausted(t) /\ t.pc = "done"
            /\ t.requested = <<1, 2, 3>>
            /\ Len(t.seen) = 3 /\ Len(t.changelog) = 2
            /\ t.result # <<>>

----------------------------------------------------------------------------
(* Claims about search_issues and the filter hook, checked under           *)
(* SpecSearch.                                                             *)

\* the tracker answered the list of milestones
C14_Listed == ~(si_res.kind = "api_error" /\ si_requests = <<>>)

\* C14: when no milestone of the tracker has the requested title,
\* search_issues fails with "milestone not found"; no page of an issue search
\* is requested and no partial result is returned.
C14_MilestoneNotFound ==
    (/\ si_pc # "called"
     /\ C14_Listed
     /\ \A k \in 1..Len(si_milestones) : si_milestones[k] # si_milestone)
        => /\ si_pc = "failed"
           /\ si_res.kind = "milestone_not_found"
           /\ si_res.issue_ids = {} /\ si_res.issues = <<>>
           /\ si_requests = <<>>

\* C14 witness: the tracker lists another milestone and holds issues; the
\* call failed with "milestone not found".
C14_Witness ==
    /\ si_milestones = <<"v1.5.0">>
    /\ si_found["milestone"] # <<>> /\ si_found["label"] # <<>> /\ si_labels # <<>>
    /\ si_res.kind = "milestone_not_found"

\* the search types that run: the label search only with labels
C15_Searched == {t \in {"label", "milestone"} : t = "milestone" \/ si_labels # <<>>}

\* the issue passes the two client-side filters
C15_Survives(issue) ==
    /\ issue.closed_at.some => issue.closed_at.at >= Now - si_since_days
    /\ \A k \in 1..Len(si_exclude_labels) : si_exclude_labels[k] \notin issue.labels

\* C15: a search ends only at an empty page of the tracker, so that every
\* issue the tracker holds for either search that passes the client-side
\* filters is in the list returned, also when an earlier page holds nothing
\* but issues that are filtered out.
C15_NoIssueMissed ==
    si_res.kind = "ok" =>
        \A t \in C15_Searched : \A k \in 1..Len(si_found[t]) :
            C15_Survives(si_found[t][k]) =>
                \E m \in 1..Len(si_res.issues) : si_res.issues[m] = si_found[t][k]

\* the issues of the pages that were requested
C16_Received ==
    UNION {{si_found[si_requests[r][1]][k] :
               k \in {j \in 1..Len(si_found[si_requests[r][1]]) :
                         (j - 1) \div PageSize + 1 = si_requests[r][2]}} :
           r \in 1..Len(si_requests)}

\* C16: no issue of the returned list, and no id of the returned set, is of
\* an issue closed before the cutoff (now - since_days) or carrying a label
\* of exclude_labels; an issue without closed_at is never dropped by the
\* recency rule.
C16_FiltersApplied ==
    si_res.kind = "ok" =>
        /\ \A m \in 1..Len(si_res.issues) : C15_Survives(si_res.issues[m])
        /\ si_res.issue_ids = {si_res.issues[m].number : m \in 1..Len(si_res.issues)}
        /\ \A issue \in C16_Received :
              (/\ ~issue.closed_at.some
               /\ \A k \in 1..Len(si_exclude_labels) :
                      si_exclude_labels[k] \notin issue.labels)
                 => \E m \in 1..Len(si_res.issues) : si_res.issues[m] = issue

\* C16 witness: the search received an open issue, an issue with an excluded
\* label and an issue closed before the cutoff, and returned the open one only.
C16_Witness ==
    /\ si_res.kind = "ok"
    /\ {issue.number : issue \in C16_Received} = {51, 52, 53}
    /\ si_exclude_labels # <<>>
    /\ si_res.issue_ids = {51}

\* the ids the hook printed
C17_Printed == {ParseU64(si_hook_lines[k]) : k \in 1..Len(si_hook_lines)}

C17_Filtered == si_pc = "filtered"

\* C17 (as stated): with a filter hook, the ids it prints are the ones
\* retained: after filtering, the id set and the issue list hold exactly the
\* candidates whose id was printed; without a hook every candidate is retained.
C17_Original ==
    C17_Filtered =>
        IF si_hook
        THEN /\ si_issue_ids = si_res.issue_ids \cap C17_Printed
             /\ si_issues = SelectSeq(si_res.issues,
                                      LAMBDA issue : issue.number \in C17_Printed)
        ELSE si_issue_ids = si_res.issue_ids /\ si_issues = si_res.issues

\* C17 (amended): with a filter hook, the ids it prints are the ones removed:
\* after filtering, the id set and the issue list hold exactly the candidates
\* whose id was not printed; without a hook every candidate is retained.
C17_PrintedRemoved ==
    C17_Filtered =>
        IF si_hook
        THEN /\ si_issue_ids = si_res.issue_ids \ C17_Printed
             /\ si_issues = SelectSeq(si_res.issues,
                                      LAMBDA issue : issue.number \notin C17_Printed)
        ELSE si_issue_ids = si_res.issue_ids /\ si_issues = si_res.issues

\* C17 witness: of the candidates 51 and 54 the hook printed 51, and an id
\* that is no candidate; 54 is what is left.
C17_Witness ==
    /\ C17_Filtered /\ si_hook
    /\ si_res.issue_ids = {51, 54}
    /\ si_hook_lines = <<"51", "99">>
    /\ si_issue_ids = {54}

----------------------------------------------------------------------------
(* Claims about the sections of the release note, checked under            *)
(* SpecRelease.                                                            *)

\* create_release ran to its end
C18_Done == cr_pc \in {"returned", "failed"}

\* the part of a label after its last '/', the whole label without a '/'
C18_KeyOfLabel(label) ==
    LET chars   == LabelChars(label)
        slashes == {k \in 1..Len(chars) : chars[k] = "/"}
        from    == IF slashes = {} THEN 1
                   ELSE 1 + CHOOSE k \in slashes : \A m \in slashes : m <= k
    IN  [k \in 1..(Len(chars) - from + 1) |-> chars[from + k - 1]]

\* the positions of note_section_labels whose label the issue carries
C18_Matches(issue) ==
    {k \in 1..Len(cr_note_section_labels) : cr_note_section_labels[k] \in issue.labels}

C18_ExpectedKey(issue) ==
    IF C18_Matches(issue) = {} THEN <<"m", "i", "s", "c">>
    ELSE C18_KeyOfLabel(cr_note_section_labels[
             CHOOSE k \in C18_Matches(issue) : \A m \in C18_Matches(issue) : k <= m])

\* C18: create_release files each issue it consumes under the key of the
\* first entry of note_section_labels, in the order of that list, that is one
\* of the labels of the issue, and under "misc" when there is none; the key is
\* the part of the label after its last '/', or the whole label.
C18_FirstLabelWins ==
    C18_Done =>
        /\ \A n \in IdsBefore : FiledAt(n) # {}
        /\ \A s \in 1..Len(cr_sections) : \A k \in 1..Len(cr_sections[s].issues) :
              cr_sections[s].key = C18_ExpectedKey(cr_sections[s].issues[k])

\* C18 witness: issue 42 carries area/network and kind/storage; with the list
\* kind/storage, area/network it was filed under "storage".
C18_Witness ==
    /\ C18_Done
    /\ cr_note_section_labels = <<"kind/storage", "area/network">>
    /\ \E s \in 1..Len(cr_sections) :
          /\ cr_sections[s].key = <<"s", "t", "o", "r", "a", "g", "e">>
          /\ \E k \in 1..Len(cr_sections[s].issues) : cr_sections[s].issues[k].number = 42

\* the keys of the labels, each at the place of the first label deriving it
RECURSIVE C19_Keys(_)
C19_Keys(labels) ==
    IF labels = <<>> THEN <<>>
    ELSE LET before == C19_Keys(Front(labels))
             key    == C18_KeyOfLabel(Last(labels))
         IN  IF \E k \in 1..Len(before) : before[k] = key
             THEN before ELSE Append(before, key)

\* the titles of the headings of the note, in the order of the note
C19_Headings ==
    LET hs == SelectSeq(cr_note, LAMBDA piece : piece.k = "heading")
    IN  [k \in 1..Len(hs) |-> hs[k].title]

\* the section of that key holds an issue
C19_Filled(key) ==
    \E s \in 1..Len(cr_sections) :
        cr_sections[s].key = key /\ cr_sections[s].issues # <<>>

\* the titles of the sections that hold an issue, keys in the given order
C19_Titles(keys) ==
    LET filled == SelectSeq(keys, C19_Filled)
    IN  [k \in 1..Len(filled) |-> TitleCase(filled[k])]

\* C19 (as stated): for every note_section_labels list, one where two labels
\* derive the same key or a label derives the key "misc" included, the
\* sections are rendered in the order of note_section_labels, with "misc"
\* after all sections derived from labels.
C19_Original ==
    cr_pc = "returned" =>
        C19_Headings =
            C19_Titles(Append(SelectSeq(C19_Keys(cr_note_section_labels),
                                        LAMBDA key : key # <<"m", "i", "s", "c">>),
                              <<"m", "i", "s", "c">>))

\* C19 (amended): the sections are rendered in the order in which their keys
\* are first derived from note_section_labels; "misc" comes after all of them
\* unless a label derives the key "misc", and then it is rendered at the
\* place of the first such label.
C19_InsertionOrder ==
    cr_pc = "returned" =>
        C19_Headings =
            C19_Titles(LET keys == C19_Keys(cr_note_section_labels)
                       IN  IF \E k \in 1..Len(keys) : keys[k] = <<"m", "i", "s", "c">>
                           THEN keys ELSE Append(keys, <<"m", "i", "s", "c">>))

\* C19 witness: with the list misc, area/storage and an issue in each of the
\* two sections, "Misc" is rendered before "Storage".
C19_Witness ==
    /\ cr_pc = "returned"
    /\ cr_note_section_labels = <<"misc", "area/storage">>
    /\ C19_Headings = <<<<"M", "i", "s", "c">>, <<"S", "t", "o", "r", "a", "g", "e">>>>

\* the issues filed into a section
C20_Filed ==
    UNION {{cr_sections[s].issues[k] : k \in 1..Len(cr_sections[s].issues)} :
           s \in 1..Len(cr_sections)}

\* C20: an issue whose URL contains "pull" never produces a bullet in any
\* rendered section; when its id was consumed its assignees are in the
\* contributors block all the same.
C20_PullsNotListed ==
    cr_pc = "returned" =>
        /\ \A k \in 1..Len(cr_issues) :
              cr_issues[k].is_pull =>
                  \A m \in 1..Len(cr_note) :
                      ~(cr_note[m].k = "bullet" /\ cr_note[m].number = cr_issues[k].number)
        /\ \A issue \in C20_Filed :
              issue.is_pull =>
                  \A a \in 1..Len(issue.assignees) :
                      \E m \in 1..Len(cr_note) :
                          /\ cr_note[m].k = "contributor"
                          /\ cr_note[m].logins = <<issue.assignees[a]>>

\* C20 witness: the pull request 44 and issue 41 were filed; the note has a
\* bullet for 41 only, and carol, assignee of 44, is a contributor.
C20_Witness ==
    /\ cr_pc = "returned"
    /\ {issue.number : issue \in C20_Filed} = {41, 44}
    /\ \E m \in 1..Len(cr_note) : cr_note[m].k = "bullet" /\ cr_note[m].number = 41
    /\ \E m \in 1..Len(cr_note) :
          cr_note[m].k = "contributor" /\ cr_note[m].logins = <<"carol">>

\* C21: a section that renders no issue is left out of the note: every
\* heading of the note is followed by at least one bullet, also when the
\* section holds pull requests only.
C21_NoBareHeading ==
    cr_pc = "returned" =>
        \A m \in 1..Len(cr_note) :
            cr_note[m].k = "heading" =>
                m < Len(cr_note) /\ cr_note[m + 1].k = "bullet"

----------------------------------------------------------------------------
(* Claims about the contributors block and the text of the note, checked   *)
(* under SpecRelease.                                                      *)

\* the logins of the contributors block, in the order of the note
C22_Listed ==
    LET cs == SelectSeq(cr_note, LAMBDA piece : piece.k = "contributor")
    IN  [k \in 1..Len(cs) |-> cs[k].logins[1]]

\* login a comes before login b in lexicographic order
C22_Before(a, b) ==
    LET x == LoginChars(a)
        y == LoginChars(b)
    IN  \/ Len(x) < Len(y) /\ SubSeq(y, 1, Len(x)) = x
        \/ \E k \in 1..Len(x) :
              /\ k <= Len(y)
              /\ SubSeq(x, 1, k - 1) = SubSeq(y, 1, k - 1)
              /\ \E i, j \in 1..Len(Lower) :
                    Lower[i] = x[k] /\ Lower[j] = y[k] /\ i < j

\* the extra contributors and the assignees of the issues filed
C22_Expected ==
    {cr_note_contributors[k] : k \in 1..Len(cr_note_contributors)}
        \cup UNION {{issue.assignees[a] : a \in 1..Len(issue.assignees)} :
                    issue \in C20_Filed}

\* C22: the contributors block lists exactly the extra contributors and the
\* assignees of the issues filed into a section, each handle once, in
\* lexicographic order; the assignees of an issue skipped because its id was
\* not in the id set are not added.
C22_Contributors ==
    cr_pc = "returned" =>
        /\ {C22_Listed[k] : k \in 1..Len(C22_Listed)} = C22_Expected
        /\ \A k \in 1..(Len(C22_Listed) - 1) : C22_Before(C22_Listed[k], C22_Listed[k + 1])

\* C22 witness: with the extra contributors dave and bob, issue 41 (bob)
\* skipped for its id and issue 42 (bob, alice) filed, the block lists alice,
\* bob, dave.
C22_Witness ==
    /\ cr_pc = "returned"
    /\ cr_note_contributors = <<"dave", "bob">>
    /\ 41 \notin cr_ids_arg
    /\ {issue.number : issue \in C20_Filed} = {42}
    /\ \E k \in 1..Len(cr_issues) : cr_issues[k].number = 41
    /\ C22_Listed = <<"alice", "bob", "dave">>

\* the part of the text a piece of the note belongs to: 1 pre_note, 2 the
\* sections, 3 post_note, 4 the contributors block
C23_Part(piece) ==
    CASE piece.k = "text" /\ piece.title = cr_pre_note -> 1
      [] piece.k \in {"heading", "bullet"} -> 2
      [] piece.k = "text" /\ piece.title # cr_pre_note -> 3
      [] piece.k \in {"contributors", "contributor"} -> 4

C23_Count(part) ==
    Cardinality({m \in 1..Len(cr_note) : C23_Part(cr_note[m]) = part})

\* C23: the text create_release returns is pre_note, then the rendered
\* sections, then post_note, then the contributors block, in this order.
C23_NoteOrder ==
    cr_pc = "returned" =>
        /\ \A i, j \in 1..Len(cr_note) :
              i < j => C23_Part(cr_note[i]) <= C23_Part(cr_note[j])
        /\ C23_Count(1) = (IF cr_pre_note = "" THEN 0 ELSE 1)
        /\ C23_Count(3) = (IF cr_post_note = "" THEN 0 ELSE 1)
        /\ \A m \in 1..Len(cr_note) :
              cr_note[m].k = "text" /\ C23_Part(cr_note[m]) = 3 =>
                  cr_note[m].title = cr_post_note
        /\ Cardinality({m \in 1..Len(cr_note) : cr_note[m].k = "contributors"}) = 1
        /\ \A m \in 1..Len(cr_note) :
              cr_note[m].k = "contributor" =>
                  \E h \in 1..(m - 1) : cr_note[h].k = "contributors"

\* C23 witness: a note with a pre note, two sections, a post note and three
\* contributors.
C23_Witness ==
    /\ cr_pc = "returned"
    /\ cr_pre_note # "" /\ cr_post_note # ""
    /\ Len(C19_Headings) = 2
    /\ Len(C22_Listed) = 3
    /\ C23_Count(2) >= 4

----------------------------------------------------------------------------
(* Claims about repeated calls of create_release, checked under SpecTwice. *)

----------------------------------------------------------------------------
(* Claims about the lookup of the section, checked under SpecRelease.      *)

\* C30: in create_release the section looked up for an issue always exists:
\* for every note_section_labels list and every issue the computed key is a
\* key of the sections map, and the lookup that files the issue never panics.
C30_SectionExists ==
    /\ cr_pc # "panicked"
    /\ C18_Done =>
          \A k \in 1..Len(cr_issues) :
              \E s \in 1..Len(cr_sections) :
                  cr_sections[s].key = C18_ExpectedKey(cr_issues[k])

\* C30 witness: with two labels deriving the key "storage", an issue was
\* filed under "storage" and an issue without labels under "misc".
C30_Witness ==
    /\ C18_Done
    /\ cr_note_section_labels = <<"area/storage", "kind/storage">>
    /\ Len(cr_sections) = 2
    /\ cr_sections[1].issues # <<>> /\ cr_sections[2].issues # <<>>
    /\ cr_sections[2].key = <<"m", "i", "s", "c">>

----------------------------------------------------------------------------
(* Claims about the since bound of the commit query, checked under         *)
(* SpecSince.                                                              *)

\* the timestamp of the previous tag's commit, where git log printed one
\* that is in the range of the date type; 0 - 1 where it did not
C25_Timestamp(log) ==
    IF log.ok /\ log.stdout = "12" THEN 12 ELSE 0 - 1

\* C25: the since bound of the commit query is the timestamp of the previous
\* tag's commit whenever it can be resolved, and now - since_days otherwise;
\* a failure to resolve it (git log fails, its output is no integer, the
\* value is out of range) never makes the task of the repository fail or
\* panic.
C25_SinceFallsBack ==
    \A i \in Tasks :
        LET t  == task[i]
            at == C25_Timestamp(repo_log[t.repo])
        IN  t.log_run =>
              /\ t.pc \notin {"failed", "panicked"}
              /\ t.since = IF at >= 0 THEN [from |-> "prev_tag", at |-> at]
                            ELSE [from |-> "since_days", at |-> Now - since_days]

----------------------------------------------------------------------------
(* Claims about the find_prev_tag flag, checked under SpecScan.            *)

\* the bullets of the commits received from the tag commit up to, and not
\* including, the first commit from there on that matches the previous-tag
\* hash; nothing when the tag commit was not received
C29_Bullets(seen, tag_hash, prev_tag_hash) ==
    LET ti == FirstMatch(seen, tag_hash)
        ends == {k \in ti..Len(seen) : StartsWith(seen[k], prev_tag_hash)}
        pi == IF ends = {} THEN Len(seen) + 1
              ELSE CHOOSE k \in ends : \A m \in ends : k <= m
    IN  IF ti = 0 THEN <<>>
        ELSE [k \in 1..(pi - ti) |->
                 [k |-> "bullet", repo |-> "", sha |-> seen[ti + k - 1]]]

\* the fragment of a repository as a function of the commits received, the
\* two hashes and the folding flag
C29_Fragment(repo, seen, tag_hash, prev_tag_hash) ==
    LET body == C29_Bullets(seen, tag_hash, prev_tag_hash)
    IN  IF is_markdown_folding
        THEN <<[k |-> "details", repo |-> "", sha |-> <<>>],
               [k |-> "summary", repo |-> repo, sha |-> <<>>],
               [k |-> "blank", repo |-> "", sha |-> <<>>]>>
             \o body
             \o <<[k |-> "blank", repo |-> "", sha |-> <<>>],
                  [k |-> "end_details", repo |-> "", sha |-> <<>>]>>
        ELSE <<[k |-> "heading", repo |-> repo, sha |-> <<>>]>>
             \o body \o <<[k |-> "blank", repo |-> "", sha |-> <<>>]>>

----------------------------------------------------------------------------
(* Claims about the tag command, checked under SpecTagCmd.                 *)

\* the place of a call in the body of the loop
C28_Rank(op) ==
    CASE op = "clone_repo" -> 1 [] op = "delete_tag" -> 2 [] op = "create_tag" -> 3

\* C28: the repositories are processed strictly in list order and, for
\* each, delete_tag precedes create_tag; when the tag exists in a repository
\* and force is false, create_tag is not invoked for that repository, the
\* command returns success at once, and no later repository is cloned or
\* tagged.
C28_TagOrder ==
    /\ \A k \in 1..Len(tg_log) :
          LET prev == IF k = 1 THEN TagCall("create_tag", 0, FALSE) ELSE tg_log[k - 1]
              call == tg_log[k]
          IN  \/ call.i = prev.i /\ C28_Rank(call.op) = C28_Rank(prev.op) + 1
              \/ call.i = prev.i + 1 /\ call.op = "clone_repo" /\ prev.op = "create_tag"
    /\ \A k \in 1..Len(tg_log) :
          (tg_log[k].op = "delete_tag" /\ tg_log[k].existed /\ ~tg_force) =>
              /\ k = Len(tg_log)
              /\ tg_pc = "ok"

\* C28 witness: without force, the first of two repositories had the tag:
\* the command returned success after its delete_tag and the second
\* repository was never cloned.
C28_Witness ==
    /\ ~tg_force /\ tg_pc = "ok" /\ Len(tg_repos) = 2
    /\ tg_log # <<>>
    /\ tg_log[Len(tg_log)].op = "delete_tag" /\ tg_log[Len(tg_log)].existed
    /\ tg_log[Len(tg_log)].i = 1

----------------------------------------------------------------------------
(* Claims about the artifact arguments, checked under SpecArtifacts.       *)

\* the files a glob matched: the paths its iterator gave
C27_Matched(pattern) ==
    LET paths == GlobWith(pattern).paths
    IN  SelectSeq(paths, LAMBDA it : it.ok)

\* the canonical paths of the matched files that have one, in glob order
C27_Canonical(pattern) ==
    LET kept == SelectSeq(C27_Matched(pattern), LAMBDA it : Canonicalize(it.path).ok)
    IN  [k \in 1..Len(kept) |-> Canonicalize(kept[k].path).path]

RECURSIVE C27_CountMatched(_)
C27_CountMatched(artifacts) ==
    IF artifacts = <<>> THEN 0
    ELSE Len(C27_Matched(Head(artifacts))) + C27_CountMatched(Tail(artifacts))

RECURSIVE C27_Appended(_)
C27_Appended(artifacts) ==
    IF artifacts = <<>> THEN <<>>
    ELSE C27_Canonical(Head(artifacts)) \o C27_Appended(Tail(artifacts))

\* the arguments already in args are unchanged and in place
C27_Frame ==
    /\ Len(ga_args) >= Len(ga_before)
    /\ SubSeq(ga_args, 1, Len(ga_before)) = ga_before

\* C27 (as stated): the arguments already in args stay unchanged and in
\* place, and args grows by exactly the number of files the globs matched.
C27_Original ==
    ga_pc = "returned" =>
        /\ C27_Frame
        /\ Len(ga_args) - Len(ga_before) = C27_CountMatched(ga_artifacts)

\* C27 (amended): the arguments already in args stay unchanged and in place;
\* when the function returns, what follows them is exactly one canonical
\* path per matched file that can be canonicalized, in glob order and in
\* the order of the glob list, and args has grown by the number of those
\* files; a matched file that cannot be canonicalized adds nothing.
C27_CanonicalAppended ==
    /\ ga_pc \in {"returned", "panicked"} => C27_Frame
    /\ ga_pc = "returned" =>
          /\ ga_args = ga_before \o C27_Appended(ga_artifacts)
          /\ Len(ga_args) - Len(ga_before) = Len(C27_Appended(ga_artifacts))

\* C27 witness: the function returned after a glob that matched four files,
\* one of which has no canonical path, and three paths were appended.
C27_Witness ==
    /\ ga_pc = "returned"
    /\ ga_artifacts = <<"out/*">>
    /\ Len(ga_args) = Len(ga_before) + 3

----------------------------------------------------------------------------
(* Claims about the version rewriting, checked under SpecRegex.            *)

\* text from position p on with every match of re replaced by the text of
\* its first group and the version, the rest unchanged
RECURSIVE C26_Rewrite(_, _, _, _)
C26_Rewrite(re, text, p, version) ==
    LET m == FindFrom(re, text, p)
    IN  IF ~m.ok THEN [k \in 1..(Len(text) - p + 1) |-> text[p + k - 1]]
        ELSE [k \in 1..(m.start - p) |-> text[p + k - 1]]
                 \o [k \in 1..(m.g1 - m.start) |-> text[m.start + k - 1]]
                 \o version
                 \o C26_Rewrite(re, text, m.end, version)

\* the patterns applied in order, each to what the one before left
RECURSIVE C26_Expected(_, _, _)
C26_Expected(text, pats, version) ==
    IF pats = <<>> THEN text
    ELSE LET re == RegexNew(Head(pats))
         IN  C26_Expected(IF FindFrom(re, text, 1).ok
                          THEN C26_Rewrite(re, text, 1, version) ELSE text,
                          Tail(pats), version)

C26_AllValid == \A k \in 1..Len(rx_pats) : RegexNew(rx_pats[k]).ok

\* the number of matches of re in text from position p on
RECURSIVE C26_Matches(_, _, _)
C26_Matches(re, text, p) ==
    LET m == FindFrom(re, text, p)
    IN  IF ~m.ok THEN 0 ELSE 1 + C26_Matches(re, text, m.end)

====
